---- MODULE Spec2Model ----
(***************************************************************************)
(* Federation Synchronization Engine of cannect-pwa.                       *)
(*                                                                         *)
(* Outbound: the staging triggers (queue_*_for_federation) that turn a     *)
(* local insert/delete into a federation_queue row, and the Sync Worker    *)
(* that drains the queue.  Inbound: the process-jetstream-event handler    *)
(* that turns commit events into notifications, and the jetstream cursor.  *)
(***************************************************************************)
EXTENDS Integers, Sequences, FiniteSets, Bags, TLC

Null == "NULL"
NoId == 0

(* ------------------------------ bounds --------------------------------- *)
MaxPosts == 2
MaxLikes == 1
MaxReposts == 1
MaxFollows == 1

PostIds == 1..MaxPosts
LikeIds == 1..MaxLikes
RepostIds == 1..MaxReposts
FollowIds == 1..MaxFollows

Users == {"x", "z"}
Rkeys == {"k1"}
\* What a client puts into subject_uri / subject_cid of a like or repost row:
\* nothing, or the values of the post it displays.
ExtUri == "at://did:plc:ext/app.bsky.feed.post/e1"
ExtCid == "bafy-ext"
ClientUris == {Null, ExtUri}
ClientCids == {Null, ExtCid}
Workers == {"w1", "w2"}
BatchSize == 2
MaxAttempts == 5
Invocations == {"i1", "i2"}
Pollers == {"a", "b"}
MaxTime == 4
NoCursor == -1

VARIABLES
  posts,             \* posts table: id -> row
  likes,             \* likes table: id -> row
  reposts,           \* reposts table: id -> row
  follows,           \* follows table: id -> row
  federation_queue,  \* outbox rows, ordered by created_at (oldest first)
  migrated,          \* TRUE once 20251221171000 replaced the like/repost functions
  wpc,               \* Sync Worker instance -> "idle" | "busy"
  batch,             \* Sync Worker instance -> ids of the rows it fetched, oldest first
  notifications,     \* bag of the external notification rows
  inv,               \* handler invocation -> its position, event and notification
  delivered,         \* the like events whose handling has run to completion
  jetstream_cursor,  \* cursor_time_us of the single cursor row, NoCursor before it exists
  now,               \* the clock, in stream time
  poll,              \* poller -> its position, the cursor it read, the end of its batch
  tids,              \* the last two generate_tid() calls of one session, oldest first
  decision,          \* the last shouldIncludePost call: its arguments and its result
  feedIndex,         \* the feed generator's index rows, in insertion order
  stats,             \* the feed generator's counters: processed, indexed, deleted
  response,          \* the last getFeedSkeleton request with its response
  cached,            \* the DIDs that have a cached external profile row (is_local = FALSE)
  appviewDb,         \* the AppView's SQLite tables, its clock and the backfill's position
  raised,            \* the last client statement whose staging trigger raised an error
  conn,              \* the feed indexer's process: its sockets, reconnect timers and the stream
  consumer           \* a feed consumer: the pages it got, its cursor, the rows indexed at its first request

outboxVars == <<posts, likes, reposts, follows, federation_queue, migrated>>
workerVars == <<wpc, batch>>
ingestVars == <<notifications, inv, delivered>>
cursorVars == <<jetstream_cursor, now, poll>>
feedVars == <<decision, feedIndex, stats, response>>
profileVars == <<cached>>
backfillVars == <<appviewDb>>
stagingVars == <<raised>>
connVars == <<conn>>
pagingVars == <<consumer>>
laterVars == <<profileVars, backfillVars, stagingVars, connVars, pagingVars>>
sideVars == <<tids, feedVars, laterVars>>
inboundVars == <<ingestVars, cursorVars, sideVars>>
vars == <<outboxVars, workerVars, inboundVars>>

\* What the actions of one later subsystem leave alone.
coreVars == <<ingestVars, cursorVars, tids, feedVars>>
exceptProfile == <<outboxVars, workerVars, coreVars, backfillVars, stagingVars, connVars, pagingVars>>
exceptBackfill == <<outboxVars, workerVars, coreVars, profileVars, stagingVars, connVars, pagingVars>>
exceptStaging == <<workerVars, coreVars, profileVars, backfillVars, connVars, pagingVars>>
exceptConn == <<outboxVars, workerVars, ingestVars, cursorVars, tids, profileVars, backfillVars, stagingVars, pagingVars>>
exceptPaging == <<outboxVars, workerVars, coreVars, profileVars, backfillVars, stagingVars, connVars>>

(* ------------------------------ profiles ------------------------------- *)
\* x is federated (has a DID); z is local-only.
profiles == [u \in Users |-> [did |-> IF u = "z" THEN Null ELSE "did:plc:" \o u]]

AtUri(did, collection, rkey) == "at://" \o did \o "/" \o collection \o "/" \o rkey

NoData == [type |-> Null, subject_uri |-> Null, subject_cid |-> Null,
           parent_uri |-> Null, parent_cid |-> Null,
           root_uri |-> Null, root_cid |-> Null]

COALESCE(a, b) == IF a # Null THEN a ELSE b

(* --------------------------- federation_queue -------------------------- *)
KeyOf(r) == <<r.record_type, r.record_id, r.operation>>

HasKey(q, k) == \E i \in 1..Len(q) : KeyOf(q[i]) = k

RowsWithKey(q, k) == {i \in 1..Len(q) : KeyOf(q[i]) = k}

\* The surrogate id of a row is fixed by its unique key: rows are never removed,
\* so a key names the same row for as long as the table lives.
NewRow(rtype, rid, did, coll, rkey, uri, data, op) ==
  [id |-> <<rtype, rid, op>>, record_type |-> rtype, record_id |-> rid, user_did |-> did,
   collection |-> coll, rkey |-> rkey, at_uri |-> uri, record_data |-> data,
   operation |-> op, status |-> "pending", attempts |-> 0, last_error |-> Null]

\* created_at = NOW(): the row becomes the newest one.
MoveToEnd(q, i, r) == Append(SubSeq(q, 1, i - 1) \o SubSeq(q, i + 1, Len(q)), r)

\* INSERT ... ON CONFLICT (record_type, record_id, operation) DO UPDATE SET
\*   record_data = EXCLUDED.record_data, status = 'pending', attempts = 0,
\*   last_error = NULL, created_at = NOW()
InsertOnConflictUpdateAlwaysAppend(q, new) == Append(q, new)

InsertOnConflictUpdateKeepStatus(q, new) ==
  IF HasKey(q, KeyOf(new))
  THEN LET i == CHOOSE j \in 1..Len(q) : KeyOf(q[j]) = KeyOf(new)
       IN MoveToEnd(q, i, [q[i] EXCEPT !.record_data = new.record_data])
  ELSE Append(q, new)

InsertOnConflictUpdate(q, new) ==
  IF HasKey(q, KeyOf(new))
  THEN LET i == CHOOSE j \in 1..Len(q) : KeyOf(q[j]) = KeyOf(new)
       IN MoveToEnd(q, i, [q[i] EXCEPT !.record_data = new.record_data,
                                       !.status = "pending",
                                       !.attempts = 0,
                                       !.last_error = Null])
  ELSE Append(q, new)

\* INSERT ... ON CONFLICT (...) DO UPDATE SET status = 'pending', attempts = 0,
\*   last_error = NULL, created_at = NOW()      (the delete triggers)
InsertOnConflictReset(q, new) ==
  IF HasKey(q, KeyOf(new))
  THEN LET i == CHOOSE j \in 1..Len(q) : KeyOf(q[j]) = KeyOf(new)
       IN MoveToEnd(q, i, [q[i] EXCEPT !.status = "pending",
                                       !.attempts = 0,
                                       !.last_error = Null])
  ELSE Append(q, new)

\* Plain INSERT (20251221171000): a duplicate key raises unique_violation.
UniqueViolation(q, new) == HasKey(q, KeyOf(new))

Without(tbl, id) == [j \in (DOMAIN tbl) \ {id} |-> tbl[j]]

With(tbl, id, row) == [j \in (DOMAIN tbl) \cup {id} |-> IF j = id THEN row ELSE tbl[j]]

(* ------------------------- queue_post_for_federation ------------------- *)
\* tbl is the posts table with the NEW row already inserted at id; k is the value of
\* the random rkey expression.  Result: the posts table and the queue after
\* the trigger.
queue_post_for_federationNoUpdate(tbl, q, id, k) ==
  LET NEWROW == tbl[id]
      v_user_did == profiles[NEWROW.user_id].did
      v_rkey == COALESCE(NEWROW.rkey, k)
  IN IF v_user_did = Null THEN [posts |-> tbl, queue |-> q]
     ELSE [posts |-> tbl,
           queue |-> InsertOnConflictUpdate(q,
                       NewRow(IF NEWROW.thread_parent_id # NoId THEN "reply" ELSE "post", id,
                              v_user_did, "app.bsky.feed.post", v_rkey,
                              AtUri(v_user_did, "app.bsky.feed.post", v_rkey),
                              [NoData EXCEPT !.type = "app.bsky.feed.post"], "create"))]

queue_post_for_federation(tbl, q, id, k) ==
  LET NEWROW == tbl[id]
      v_user_did == profiles[NEWROW.user_id].did
  IN
  IF v_user_did = Null THEN [posts |-> tbl, queue |-> q]
  ELSE
    LET v_rkey == COALESCE(NEWROW.rkey, k)
        v_at_uri == AtUri(v_user_did, "app.bsky.feed.post", v_rkey)
        tbl2 == IF NEWROW.rkey = Null \/ NEWROW.at_uri = Null
                THEN [tbl EXCEPT ![id].rkey = v_rkey, ![id].at_uri = v_at_uri]
                ELSE tbl
        isReply == NEWROW.thread_parent_id # NoId
        parentFound == isReply /\ NEWROW.thread_parent_id \in DOMAIN tbl2
        v_parent_uri == IF parentFound THEN tbl2[NEWROW.thread_parent_id].at_uri ELSE Null
        v_parent_cid == IF parentFound THEN tbl2[NEWROW.thread_parent_id].at_cid ELSE Null
        ownRoot == NEWROW.thread_root_id # NoId /\ NEWROW.thread_root_id # NEWROW.thread_parent_id
        rootFound == ownRoot /\ NEWROW.thread_root_id \in DOMAIN tbl2
        v_root_uri == IF ownRoot
                      THEN (IF rootFound THEN tbl2[NEWROW.thread_root_id].at_uri ELSE Null)
                      ELSE v_parent_uri
        v_root_cid == IF ownRoot
                      THEN (IF rootFound THEN tbl2[NEWROW.thread_root_id].at_cid ELSE Null)
                      ELSE v_parent_cid
        base == [NoData EXCEPT !.type = "app.bsky.feed.post"]
        v_record_data ==
          IF isReply /\ v_parent_uri # Null /\ v_parent_cid # Null
          THEN [base EXCEPT !.parent_uri = v_parent_uri,
                            !.parent_cid = v_parent_cid,
                            !.root_uri = COALESCE(v_root_uri, v_parent_uri),
                            !.root_cid = COALESCE(v_root_cid, v_parent_cid)]
          ELSE base
        row == NewRow(IF isReply THEN "reply" ELSE "post", id, v_user_did,
                      "app.bsky.feed.post", v_rkey, v_at_uri, v_record_data, "create")
    IN [posts |-> tbl2, queue |-> InsertOnConflictUpdate(q, row)]

(* --------------------- queue_post_deletion_for_federation -------------- *)
queue_post_deletion_for_federationOnlyConfirmed(q, id, OLDROW) ==
  IF OLDROW.at_cid # Null /\ profiles[OLDROW.user_id].did # Null
  THEN InsertOnConflictReset(q,
         NewRow(IF OLDROW.thread_parent_id # NoId THEN "reply" ELSE "post", id,
                profiles[OLDROW.user_id].did, "app.bsky.feed.post", OLDROW.rkey, OLDROW.at_uri,
                NoData, "delete"))
  ELSE q

queue_post_deletion_for_federation(q, id, OLDROW) ==
  IF OLDROW.at_uri # Null /\ profiles[OLDROW.user_id].did # Null
  THEN InsertOnConflictReset(q,
         NewRow(IF OLDROW.thread_parent_id # NoId THEN "reply" ELSE "post", id,
                profiles[OLDROW.user_id].did, "app.bsky.feed.post", OLDROW.rkey, OLDROW.at_uri,
                NoData, "delete"))
  ELSE q

(* ------------- queue_like_for_federation / queue_repost_for_federation ---- *)
LookupPostDerivedCid(ptbl, post_id) ==
  IF post_id \in DOMAIN ptbl
  THEN [uri |-> ptbl[post_id].at_uri,
        cid |-> IF ptbl[post_id].rkey = Null THEN Null ELSE "bafy-" \o ptbl[post_id].rkey]
  ELSE [uri |-> Null, cid |-> Null]

\* SELECT posts.at_uri, posts.at_cid INTO ... FROM posts WHERE id = post_id
\* (no row found: both targets become NULL).
LookupPost(ptbl, post_id) ==
  IF post_id \in DOMAIN ptbl
  THEN [uri |-> ptbl[post_id].at_uri, cid |-> ptbl[post_id].at_cid]
  ELSE [uri |-> Null, cid |-> Null]

\* The subject the trigger resolves: the like/repost row's own values first,
\* the posts table when either of them is missing.
ResolveSubject(ptbl, NEWROW) ==
  IF NEWROW.subject_uri = Null \/ NEWROW.subject_cid = Null
  THEN LookupPost(ptbl, NEWROW.post_id)
  ELSE [uri |-> NEWROW.subject_uri, cid |-> NEWROW.subject_cid]

StageSubjectRecordNoCidCheck(rtype, coll, tbl, ptbl, q, id, k, upsert) ==
  LET NEWROW == tbl[id]
      v_user_did == profiles[NEWROW.user_id].did
      subj == ResolveSubject(ptbl, NEWROW)
      unchanged == [tbl |-> tbl, queue |-> q]
  IN
  IF v_user_did = Null THEN unchanged
  ELSE IF subj.uri = Null THEN unchanged
  ELSE
    LET v_rkey == COALESCE(NEWROW.rkey, k)
        v_at_uri == AtUri(v_user_did, coll, v_rkey)
        tbl2 == [tbl EXCEPT ![id].rkey = v_rkey, ![id].at_uri = v_at_uri,
                            ![id].subject_uri = subj.uri, ![id].subject_cid = subj.cid]
        v_record_data == [NoData EXCEPT !.type = coll,
                                        !.subject_uri = subj.uri,
                                        !.subject_cid = subj.cid]
        row == NewRow(rtype, id, v_user_did, coll, v_rkey, v_at_uri, v_record_data, "create")
    IN IF upsert THEN [tbl |-> tbl2, queue |-> InsertOnConflictUpdate(q, row)]
       ELSE IF UniqueViolation(q, row) THEN unchanged
       ELSE [tbl |-> tbl2, queue |-> Append(q, row)]

\* Body shared by the like and the repost trigger (the two differ in the
\* record type and the collection only).  upsert = TRUE is the ON CONFLICT
\* insert of the comprehensive fix, FALSE the plain INSERT inside
\* EXCEPTION WHEN OTHERS of 20251221171000.
StageSubjectRecord(rtype, coll, tbl, ptbl, q, id, k, upsert) ==
  LET NEWROW == tbl[id]
      v_user_did == profiles[NEWROW.user_id].did
      subj == ResolveSubject(ptbl, NEWROW)
      unchanged == [tbl |-> tbl, queue |-> q]
  IN
  IF v_user_did = Null THEN unchanged
  ELSE IF subj.uri = Null THEN unchanged
  ELSE IF subj.cid = Null THEN unchanged
  ELSE
    LET v_rkey == COALESCE(NEWROW.rkey, k)
        v_at_uri == AtUri(v_user_did, coll, v_rkey)
        tbl2 == [tbl EXCEPT ![id].rkey = v_rkey, ![id].at_uri = v_at_uri,
                            ![id].subject_uri = subj.uri, ![id].subject_cid = subj.cid]
        v_record_data == [NoData EXCEPT !.type = coll,
                                        !.subject_uri = subj.uri,
                                        !.subject_cid = subj.cid]
        row == NewRow(rtype, id, v_user_did, coll, v_rkey, v_at_uri, v_record_data, "create")
    IN IF upsert THEN [tbl |-> tbl2, queue |-> InsertOnConflictUpdate(q, row)]
       ELSE IF UniqueViolation(q, row) THEN unchanged
       ELSE [tbl |-> tbl2, queue |-> Append(q, row)]

queue_like_for_federation(tbl, ptbl, q, id, k, upsert) ==
  StageSubjectRecord("like", "app.bsky.feed.like", tbl, ptbl, q, id, k, upsert)

queue_repost_for_federation(tbl, ptbl, q, id, k, upsert) ==
  StageSubjectRecord("repost", "app.bsky.feed.repost", tbl, ptbl, q, id, k, upsert)

(* ----------- queue_unlike_for_federation / queue_unrepost_for_federation -- *)
\* Comprehensive fix: staged when at_uri is set and the owner has a DID.
\* 20251221171000: additionally requires rkey, and inserts without ON CONFLICT;
\* the unique_violation is swallowed by EXCEPTION WHEN OTHERS.
StageSubjectDelete(rtype, coll, q, id, OLDROW, upsert) ==
  LET did == profiles[OLDROW.user_id].did
      row == NewRow(rtype, id, did, coll, OLDROW.rkey, OLDROW.at_uri, NoData, "delete")
  IN IF upsert
     THEN IF OLDROW.at_uri # Null /\ did # Null THEN InsertOnConflictReset(q, row) ELSE q
     ELSE IF OLDROW.rkey = Null \/ OLDROW.at_uri = Null THEN q
          ELSE IF did = Null THEN q
          ELSE IF UniqueViolation(q, row) THEN q
          ELSE Append(q, row)

queue_unlike_for_federation(q, id, OLDROW, upsert) ==
  StageSubjectDelete("like", "app.bsky.feed.like", q, id, OLDROW, upsert)

queue_unrepost_for_federation(q, id, OLDROW, upsert) ==
  StageSubjectDelete("repost", "app.bsky.feed.repost", q, id, OLDROW, upsert)

(* ------------------------ queue_follow_for_federation ------------------ *)
queue_follow_for_federation(tbl, q, id, k) ==
  LET NEWROW == tbl[id]
      v_follower_did == profiles[NEWROW.follower_id].did
      v_following_did ==
        IF NEWROW.subject_did # Null THEN NEWROW.subject_did
        ELSE IF NEWROW.following_id \in Users THEN profiles[NEWROW.following_id].did
        ELSE Null
      unchanged == [tbl |-> tbl, queue |-> q]
  IN
  IF v_follower_did = Null THEN unchanged
  ELSE IF v_following_did = Null THEN unchanged
  ELSE
    LET v_rkey == COALESCE(NEWROW.rkey, k)
        v_at_uri == AtUri(v_follower_did, "app.bsky.graph.follow", v_rkey)
        tbl2 == [tbl EXCEPT ![id].rkey = v_rkey, ![id].at_uri = v_at_uri,
                            ![id].subject_did = v_following_did]
        v_record_data == [NoData EXCEPT !.type = "app.bsky.graph.follow",
                                        !.subject_uri = v_following_did]
        row == NewRow("follow", id, v_follower_did, "app.bsky.graph.follow",
                      v_rkey, v_at_uri, v_record_data, "create")
    IN [tbl |-> tbl2, queue |-> InsertOnConflictUpdate(q, row)]

queue_unfollow_for_federation(q, id, OLDROW) ==
  IF OLDROW.at_uri # Null /\ profiles[OLDROW.follower_id].did # Null
  THEN InsertOnConflictReset(q,
         NewRow("follow", id, profiles[OLDROW.follower_id].did, "app.bsky.graph.follow",
                OLDROW.rkey, OLDROW.at_uri, NoData, "delete"))
  ELSE q

(* ------------------------- local mutations ------------------------------ *)
\* INSERT INTO posts: fires queue_post_for_federation.
InsertPost(p, u, parent, root, k) ==
  /\ p \notin DOMAIN posts
  /\ parent \in {NoId} \cup DOMAIN posts
  /\ root \in {NoId} \cup DOMAIN posts
  /\ parent = NoId => root = NoId
  /\ LET NEWROW == [user_id |-> u, thread_parent_id |-> parent, thread_root_id |-> root,
                    rkey |-> Null, at_uri |-> Null, at_cid |-> Null]
         res == queue_post_for_federation(With(posts, p, NEWROW), federation_queue, p, k)
     IN /\ posts' = res.posts
        /\ federation_queue' = res.queue
  /\ UNCHANGED <<likes, reposts, follows, migrated, workerVars, inboundVars>>

\* The likes whose post_id is p, deleted by ON DELETE CASCADE; each fires
\* queue_unlike_for_federation.
RECURSIVE CascadeUnlike(_, _, _)
CascadeUnlike(ids, tbl, q) ==
  IF ids = {} THEN q
  ELSE LET l == CHOOSE j \in ids : \A j2 \in ids : j <= j2
       IN CascadeUnlike(ids \ {l}, tbl, queue_unlike_for_federation(q, l, tbl[l], ~migrated))

\* DELETE FROM posts: fires queue_post_deletion_for_federation.
DeletePost(p) ==
  /\ p \in DOMAIN posts
  /\ LET gone == {l \in DOMAIN likes : likes[l].post_id = p}
         q1 == queue_post_deletion_for_federation(federation_queue, p, posts[p])
     IN /\ federation_queue' = CascadeUnlike(gone, likes, q1)
        /\ likes' = [l \in (DOMAIN likes) \ gone |-> likes[l]]
  /\ posts' = Without(posts, p)
  /\ UNCHANGED <<reposts, follows, migrated, workerVars, inboundVars>>

\* INSERT INTO likes: fires queue_like_for_federation.
InsertLike(l, u, post_id, suri, scid, k) ==
  /\ l \notin DOMAIN likes
  /\ post_id \in {NoId} \cup DOMAIN posts
  /\ suri \in ClientUris
  /\ scid \in ClientCids
  /\ post_id # NoId \/ suri # Null
  /\ LET NEWROW == [user_id |-> u, post_id |-> post_id, subject_uri |-> suri,
                    subject_cid |-> scid, rkey |-> Null, at_uri |-> Null]
         res == queue_like_for_federation(With(likes, l, NEWROW), posts,
                                          federation_queue, l, k, ~migrated)
     IN /\ likes' = res.tbl
        /\ federation_queue' = res.queue
  /\ UNCHANGED <<posts, reposts, follows, migrated, workerVars, inboundVars>>

\* DELETE FROM likes: fires queue_unlike_for_federation.
DeleteLike(l) ==
  /\ l \in DOMAIN likes
  /\ federation_queue' = queue_unlike_for_federation(federation_queue, l, likes[l], ~migrated)
  /\ likes' = Without(likes, l)
  /\ UNCHANGED <<posts, reposts, follows, migrated, workerVars, inboundVars>>

\* INSERT INTO reposts: fires queue_repost_for_federation.
InsertRepost(r, u, post_id, suri, scid, k) ==
  /\ r \notin DOMAIN reposts
  /\ post_id \in {NoId} \cup DOMAIN posts
  /\ suri \in ClientUris
  /\ scid \in ClientCids
  /\ post_id # NoId \/ suri # Null
  /\ LET NEWROW == [user_id |-> u, post_id |-> post_id, subject_uri |-> suri,
                    subject_cid |-> scid, rkey |-> Null, at_uri |-> Null]
         res == queue_repost_for_federation(With(reposts, r, NEWROW), posts,
                                            federation_queue, r, k, ~migrated)
     IN /\ reposts' = res.tbl
        /\ federation_queue' = res.queue
  /\ UNCHANGED <<posts, likes, follows, migrated, workerVars, inboundVars>>

\* DELETE FROM reposts: fires queue_unrepost_for_federation.
DeleteRepost(r) ==
  /\ r \in DOMAIN reposts
  /\ federation_queue' = queue_unrepost_for_federation(federation_queue, r, reposts[r], ~migrated)
  /\ reposts' = Without(reposts, r)
  /\ UNCHANGED <<posts, likes, follows, migrated, workerVars, inboundVars>>

\* INSERT INTO follows: fires queue_follow_for_federation.
InsertFollow(f, u, target, sdid, k) ==
  /\ f \notin DOMAIN follows
  /\ target \in Users \cup {Null}
  /\ sdid \in {Null, "did:plc:ext"}
  /\ target # Null \/ sdid # Null
  /\ target # u
  /\ LET NEWROW == [follower_id |-> u, following_id |-> target, subject_did |-> sdid,
                    rkey |-> Null, at_uri |-> Null]
         res == queue_follow_for_federation(With(follows, f, NEWROW), federation_queue, f, k)
     IN /\ follows' = res.tbl
        /\ federation_queue' = res.queue
  /\ UNCHANGED <<posts, likes, reposts, migrated, workerVars, inboundVars>>

\* DELETE FROM follows: fires queue_unfollow_for_federation.
DeleteFollow(f) ==
  /\ f \in DOMAIN follows
  /\ federation_queue' = queue_unfollow_for_federation(federation_queue, f, follows[f])
  /\ follows' = Without(follows, f)
  /\ UNCHANGED <<posts, likes, reposts, migrated, workerVars, inboundVars>>

\* 20251221171000_fix_federation_queue_columns.sql is applied: CREATE OR REPLACE
\* of the like, repost, unlike and unrepost trigger functions.
Migrate171000 ==
  /\ ~migrated
  /\ migrated' = TRUE
  /\ UNCHANGED <<posts, likes, reposts, follows, federation_queue, workerVars, inboundVars>>

(* ----------------------- errors inside the triggers -------------------- *)
\* EXCEPTION WHEN OTHERS THEN ... RETURN NEW / RETURN OLD: only the like,
\* repost, unlike and unrepost functions of 20251221171000 end with it; the
\* functions of the comprehensive fix have no handler.
HasHandler(table) == table \in {"likes", "reposts"} /\ migrated

TableOf(table) ==
  CASE table = "posts" -> posts
    [] table = "likes" -> likes
    [] table = "reposts" -> reposts
    [] table = "follows" -> follows

\* The NEW row of an INSERT whose trigger gets as far as the key generation:
\* the owner has a DID and the subject is resolved.
NewRowOf(table) ==
  CASE table = "posts" -> [user_id |-> "x", thread_parent_id |-> NoId, thread_root_id |-> NoId,
                           rkey |-> Null, at_uri |-> Null, at_cid |-> Null]
    [] table \in {"likes", "reposts"} ->
                          [user_id |-> "x", post_id |-> NoId, subject_uri |-> ExtUri,
                           subject_cid |-> ExtCid, rkey |-> Null, at_uri |-> Null]
    [] table = "follows" -> [follower_id |-> "x", following_id |-> Null,
                             subject_did |-> "did:plc:ext", rkey |-> Null, at_uri |-> Null]

Committed(table, tbl) ==
  /\ posts' = IF table = "posts" THEN tbl ELSE posts
  /\ likes' = IF table = "likes" THEN tbl ELSE likes
  /\ reposts' = IF table = "reposts" THEN tbl ELSE reposts
  /\ follows' = IF table = "follows" THEN tbl ELSE follows

\* INSERT INTO table, and the trigger raises (gen_random_bytes or
\* generate_tid, jsonb building, the INSERT INTO federation_queue).  With a
\* handler the block's own writes are undone and NEW is returned; without one
\* the error leaves the function and the statement is rolled back.
InsertRaises(table, id) ==
  /\ id \notin DOMAIN TableOf(table)
  /\ IF HasHandler(table)
     THEN Committed(table, With(TableOf(table), id, NewRowOf(table)))
     ELSE UNCHANGED <<posts, likes, reposts, follows>>
  /\ raised' = <<[table |-> table, op |-> "insert", id |-> id, committed |-> HasHandler(table)]>>
  /\ UNCHANGED <<federation_queue, migrated, exceptStaging>>

\* DELETE FROM table of a federated row, and the trigger raises in its
\* INSERT INTO federation_queue.
DeleteRaises(table, id) ==
  /\ id \in DOMAIN TableOf(table)
  /\ TableOf(table)[id].at_uri # Null
  /\ IF HasHandler(table)
     THEN Committed(table, Without(TableOf(table), id))
     ELSE UNCHANGED <<posts, likes, reposts, follows>>
  /\ raised' = <<[table |-> table, op |-> "delete", id |-> id, committed |-> HasHandler(table)]>>
  /\ UNCHANGED <<federation_queue, migrated, exceptStaging>>

(* ------------------------------ Sync Worker ----------------------------- *)
Min(a, b) == IF a <= b THEN a ELSE b

CidOf(rkey) == "bafy-" \o rkey

RowIndex(q, id) == CHOOSE i \in 1..Len(q) : q[i].id = id

IsPending(r) == r.status = "pending"

\* Poll: the oldest BatchSize pending rows.  The rows are only read; nothing
\* marks them as taken.
WorkerPoll(w) ==
  /\ wpc[w] = "idle"
  /\ LET pend == SelectSeq(federation_queue, IsPending)
     IN /\ pend # <<>>
        /\ batch' = [batch EXCEPT ![w] = [i \in 1..Min(BatchSize, Len(pend)) |-> pend[i].id]]
  /\ wpc' = [wpc EXCEPT ![w] = "busy"]
  /\ UNCHANGED <<outboxVars, inboundVars>>

\* What the remote repository can answer to the call for row r: success, the
\* record already exists (a redelivered create), a transient error, or a
\* permanent rejection.
Outcomes(r) ==
  IF r.operation = "delete" THEN {"ok", "transient"}
  ELSE {"ok", "exists", "transient", "rejected"}

\* The row after the call: done on success or duplicate, attempts + 1 and
\* back to pending on a transient error, failed at the ceiling or on a
\* permanent rejection.
RowAfter(r, outcome) ==
  CASE outcome \in {"ok", "exists"} -> [r EXCEPT !.status = "done"]
    [] outcome = "transient" ->
         [r EXCEPT !.attempts = r.attempts + 1,
                   !.status = IF r.attempts + 1 >= MaxAttempts THEN "failed" ELSE "pending",
                   !.last_error = "transient"]
    [] outcome = "rejected" -> [r EXCEPT !.status = "failed", !.last_error = "rejected"]

\* The returned (uri, cid) written back onto the originating local entity.
WriteBack(tbl, rid, uri, cid, hasCid) ==
  IF rid \in DOMAIN tbl
  THEN IF hasCid THEN [tbl EXCEPT ![rid].at_uri = uri, ![rid].at_cid = cid]
       ELSE [tbl EXCEPT ![rid].at_uri = uri]
  ELSE tbl

\* Deliver the head of the fetched batch and record the result.
WorkerDeliver(w, outcome) ==
  /\ wpc[w] = "busy"
  /\ batch[w] # <<>>
  /\ LET id == Head(batch[w])
         i == RowIndex(federation_queue, id)
         r == federation_queue[i]
         created == outcome = "ok" /\ r.operation = "create"
         isPost == r.record_type \in {"post", "reply"}
     IN /\ outcome \in Outcomes(r)
        /\ federation_queue' = [federation_queue EXCEPT ![i] = RowAfter(r, outcome)]
        /\ posts' = IF created /\ isPost
                    THEN WriteBack(posts, r.record_id, r.at_uri, CidOf(r.rkey), TRUE)
                    ELSE posts
        /\ likes' = IF created /\ r.record_type = "like"
                    THEN WriteBack(likes, r.record_id, r.at_uri, Null, FALSE)
                    ELSE likes
        /\ reposts' = IF created /\ r.record_type = "repost"
                      THEN WriteBack(reposts, r.record_id, r.at_uri, Null, FALSE)
                      ELSE reposts
        /\ follows' = IF created /\ r.record_type = "follow"
                      THEN WriteBack(follows, r.record_id, r.at_uri, Null, FALSE)
                      ELSE follows
  /\ batch' = [batch EXCEPT ![w] = Tail(batch[w])]
  /\ wpc' = [wpc EXCEPT ![w] = IF Tail(batch[w]) = <<>> THEN "idle" ELSE "busy"]
  /\ UNCHANGED <<migrated, inboundVars>>

(* --------------------------- process-jetstream-event ------------------- *)
CANNECT_DOMAIN == "cannect.space"

\* Text is a sequence of tokens; NoUri is the absent (or empty) string.
NoUri == <<>>

HandleUri(handle, rkey) == <<"at://", handle, ".", CANNECT_DOMAIN, "/app.bsky.feed.post/", rkey>>

DidUri(did, rkey) == <<"at://", did, "/app.bsky.feed.post/", rkey>>

\* String.prototype.includes
Includes(text, part) == \E i \in 1..Len(text) : text[i] = part

ExtDid == "did:plc:ext"

\* The posts the handler can look up: A and B are stored under a URI that
\* names the owner by handle, C under the URI the post trigger builds.
LocalPosts ==
  {[id |-> "A", user_id |-> "x", atproto_uri |-> HandleUri("x", "a")],
   [id |-> "B", user_id |-> "x", atproto_uri |-> HandleUri("x", "b")],
   [id |-> "C", user_id |-> "x", atproto_uri |-> DidUri(profiles["x"].did, "c")]}

NoPost == [id |-> Null, user_id |-> Null, atproto_uri |-> NoUri]

findPostByUri(uri) ==
  IF \E p \in LocalPosts : p.atproto_uri = uri
  THEN CHOOSE p \in LocalPosts : p.atproto_uri = uri
  ELSE NoPost

\* The id upsert_external_profile gave the profile row of an external DID.
ExternalProfileId(did) == "profile-of-" \o did

OtherDid == "did:plc:other"

IsLocalDid(did) == did # Null /\ \E u \in Users : profiles[u].did = did

\* select id from profiles where did = ...: local users and cached external
\* profiles live in the same table, and the query does not look at is_local.
findUserByDid(did) ==
  IF IsLocalDid(did)
  THEN CHOOSE u \in Users : profiles[u].did = did
  ELSE IF did \in cached THEN ExternalProfileId(did)
  ELSE Null

\* upsert_external_profile(p_did, ...): the profile row of an external identity
\* is created on first sight and refreshed afterwards.
upsert_external_profile(did) ==
  /\ ~IsLocalDid(did)
  /\ cached' = cached \cup {did}
  /\ UNCHANGED exceptProfile

Event(actorDid, collection, operation, subject, subjectDid, parent, quoted) ==
  [actorDid |-> actorDid, collection |-> collection, operation |-> operation,
   subject |-> subject, subjectDid |-> subjectDid, parent |-> parent, quoted |-> quoted]

LikeOf(actorDid, uri) ==
  Event(actorDid, "app.bsky.feed.like", "create", uri, Null, NoUri, NoUri)

Events ==
  {LikeOf(ExtDid, HandleUri("x", "a")),
   LikeOf(ExtDid, HandleUri("x", "b")),
   LikeOf(ExtDid, DidUri(profiles["x"].did, "c")),
   LikeOf(profiles["x"].did, HandleUri("x", "a")),
   Event(ExtDid, "app.bsky.feed.like", "delete", HandleUri("x", "a"), Null, NoUri, NoUri),
   Event(ExtDid, "app.bsky.feed.repost", "create", HandleUri("x", "a"), Null, NoUri, NoUri),
   Event(ExtDid, "app.bsky.feed.repost", "create", DidUri(profiles["x"].did, "c"), Null, NoUri, NoUri),
   Event(ExtDid, "app.bsky.feed.post", "create", NoUri, Null, HandleUri("x", "a"), NoUri),
   Event(ExtDid, "app.bsky.feed.post", "create", NoUri, Null, NoUri, HandleUri("x", "b")),
   Event(ExtDid, "app.bsky.graph.follow", "create", NoUri, profiles["x"].did, NoUri, NoUri),
   Event(ExtDid, "app.bsky.graph.follow", "create", NoUri, OtherDid, NoUri, NoUri),
   Event(profiles["x"].did, "app.bsky.feed.repost", "create", HandleUri("x", "a"), Null, NoUri, NoUri),
   Event(profiles["x"].did, "app.bsky.feed.post", "create", NoUri, Null, HandleUri("x", "a"), NoUri),
   Event(profiles["x"].did, "app.bsky.feed.post", "create", NoUri, Null, NoUri, HandleUri("x", "b")),
   Event(profiles["x"].did, "app.bsky.graph.follow", "create", NoUri, profiles["x"].did, NoUri, NoUri)}

\* The arguments of createNotification; NoParams when the handler returns
\* without calling it.
Params(userId, actorDid, reason, postId) ==
  [userId |-> userId, actorDid |-> actorDid, reason |-> reason, postId |-> postId]

NoParams == Params(Null, Null, Null, Null)

processSubjectNoSelfCheck(event, reason) ==
  IF event.subject = NoUri \/ ~Includes(event.subject, CANNECT_DOMAIN) THEN NoParams
  ELSE LET post == findPostByUri(event.subject)
       IN IF post = NoPost THEN NoParams
          ELSE Params(post.user_id, event.actorDid, reason, post.id)

\* processLike and processRepost differ in the reason only.
processSubject(event, reason) ==
  IF event.subject = NoUri \/ ~Includes(event.subject, CANNECT_DOMAIN) THEN NoParams
  ELSE LET post == findPostByUri(event.subject)
       IN IF post = NoPost THEN NoParams
          ELSE IF findUserByDid(event.actorDid) = post.user_id THEN NoParams
          ELSE Params(post.user_id, event.actorDid, reason, post.id)

processLike(event) == processSubject(event, "like")

processRepost(event) == processSubject(event, "repost")

\* The notification for a post that replies to (reason reply) or quotes
\* (reason quote) the post at uri; NoParams when this branch falls through.
MentionOf(event, uri, reason) ==
  IF uri # NoUri /\ Includes(uri, CANNECT_DOMAIN)
  THEN LET post == findPostByUri(uri)
       IN IF post # NoPost /\ findUserByDid(event.actorDid) # post.user_id
          THEN Params(post.user_id, event.actorDid, reason, post.id)
          ELSE NoParams
  ELSE NoParams

processPost(event) ==
  IF MentionOf(event, event.parent, "reply") # NoParams
  THEN MentionOf(event, event.parent, "reply")
  ELSE MentionOf(event, event.quoted, "quote")

processFollow(event) ==
  IF event.subjectDid = Null THEN NoParams
  ELSE LET targetUser == findUserByDid(event.subjectDid)
       IN IF targetUser = Null THEN NoParams
          ELSE IF findUserByDid(event.actorDid) = targetUser THEN NoParams
          ELSE Params(targetUser, event.actorDid, "follow", Null)

\* The request handler up to the call of createNotification.
serve(event) ==
  IF event.operation # "create" THEN NoParams
  ELSE CASE event.collection = "app.bsky.feed.like" -> processLike(event)
         [] event.collection = "app.bsky.feed.repost" -> processRepost(event)
         [] event.collection = "app.bsky.feed.post" -> processPost(event)
         [] event.collection = "app.bsky.graph.follow" -> processFollow(event)
         [] OTHER -> NoParams

\* createNotification, the dedup query: select id from notifications where
\* user_id, reason, actor_did match and is_external, limit 1.
Existing(n, params) ==
  \E row \in BagToSet(n) :
    /\ row.user_id = params.userId
    /\ row.reason = params.reason
    /\ row.actor_did = params.actorDid
    /\ row.is_external

\* createNotification, the row it inserts.
insertData(params) ==
  [user_id |-> params.userId, reason |-> params.reason, post_id |-> params.postId,
   is_external |-> TRUE, actor_did |-> params.actorDid]

Idle == [pc |-> "idle", event |-> LikeOf(Null, NoUri), params |-> NoParams]

IsLikeCreate(event) == event.collection = "app.bsky.feed.like" /\ event.operation = "create"

Completed(i) == IF IsLikeCreate(inv[i].event) THEN delivered \cup {inv[i].event} ELSE delivered

\* An event is posted to the handler: invocation i runs up to the dedup query.
Receive(i, event) ==
  /\ inv[i].pc = "idle"
  /\ inv' = [inv EXCEPT ![i] = IF serve(event) = NoParams THEN Idle
                                ELSE [pc |-> "select", event |-> event, params |-> serve(event)]]
  /\ delivered' = IF serve(event) = NoParams /\ IsLikeCreate(event)
                   THEN delivered \cup {event} ELSE delivered
  /\ UNCHANGED <<notifications, outboxVars, workerVars, cursorVars, sideVars>>

\* The dedup query returns: a hit ends the invocation ("duplicate").
Select(i) ==
  /\ inv[i].pc = "select"
  /\ IF Existing(notifications, inv[i].params)
     THEN /\ inv' = [inv EXCEPT ![i] = Idle]
          /\ delivered' = Completed(i)
     ELSE /\ inv' = [inv EXCEPT ![i].pc = "insert"]
          /\ UNCHANGED delivered
  /\ UNCHANGED <<notifications, outboxVars, workerVars, cursorVars, sideVars>>

\* The insert.
Insert(i) ==
  /\ inv[i].pc = "insert"
  /\ notifications' = notifications (+) SetToBag({insertData(inv[i].params)})
  /\ inv' = [inv EXCEPT ![i] = Idle]
  /\ delivered' = Completed(i)
  /\ UNCHANGED <<outboxVars, workerVars, cursorVars, sideVars>>

(* ------------------------------ jetstream cursor ----------------------- *)
Max(a, b) == IF a >= b THEN a ELSE b

PollIdle == [pc |-> "idle", from |-> 0, last |-> 0]

\* The stream moves on.
Tick ==
  /\ now < MaxTime
  /\ now' = now + 1
  /\ UNCHANGED <<jetstream_cursor, poll, outboxVars, workerVars, ingestVars, sideVars>>

\* INSERT INTO jetstream_cursor (cursor_time_us) VALUES (now) ON CONFLICT (id)
\* DO NOTHING; the migration can be applied again.
InitCursor ==
  /\ jetstream_cursor' = IF jetstream_cursor = NoCursor THEN now ELSE jetstream_cursor
  /\ UNCHANGED <<now, poll, outboxVars, workerVars, ingestVars, sideVars>>

\* A scheduled poll cycle starts: it reads the cursor.
PollStart(p) ==
  /\ poll[p].pc = "idle"
  /\ jetstream_cursor # NoCursor
  /\ poll' = [poll EXCEPT ![p] = [pc |-> "fetch", from |-> jetstream_cursor,
                                  last |-> jetstream_cursor]]
  /\ UNCHANGED <<jetstream_cursor, now, outboxVars, workerVars, ingestVars, sideVars>>

\* It fetches and processes a batch of the events after the cursor it read;
\* last is the time of the newest event of the batch.
PollFetch(p, last) ==
  /\ poll[p].pc = "fetch"
  /\ last \in poll[p].from..now
  /\ poll' = [poll EXCEPT ![p].pc = "persist", ![p].last = last]
  /\ UNCHANGED <<jetstream_cursor, now, outboxVars, workerVars, ingestVars, sideVars>>

AdvanceCursorOverwrite(cur, last) == last

\* The cursor is advanced to the end of the batch, never moved back.
AdvanceCursor(cur, last) == Max(cur, last)

\* The batch is persisted: the cycle writes the cursor.
PollPersist(p) ==
  /\ poll[p].pc = "persist"
  /\ jetstream_cursor' = AdvanceCursor(jetstream_cursor, poll[p].last)
  /\ poll' = [poll EXCEPT ![p] = PollIdle]
  /\ UNCHANGED <<now, outboxVars, workerVars, ingestVars, sideVars>>

(* ------------------------------- generate_tid -------------------------- *)
\* A BIGINT is its 64 bits, bit 63 the sign; a timestamp is given by the set
\* of its bits that are 1.
BigintBits == 0..63

Bigint(ones) == [i \in BigintBits |-> IF i \in ones THEN 1 ELSE 0]

\* An INTEGER (here 0..1023) widened to BIGINT.
IntToBigint(n) == [i \in BigintBits |-> IF i < 31 THEN (n \div 2^i) % 2 ELSE 0]

\* a << n : the bits shifted out are lost.
ShiftLeft(a, n) == [i \in BigintBits |-> IF i < n THEN 0 ELSE a[i - n]]

\* a >> n : arithmetic, the sign bit is copied in.
ShiftRight(a, n) == [i \in BigintBits |-> IF i + n <= 63 THEN a[i + n] ELSE a[63]]

BitOr(a, b) == [i \in BigintBits |-> IF a[i] = 1 \/ b[i] = 1 THEN 1 ELSE 0]

\* (a & 31)::INTEGER
Low5(a) == a[0] + 2 * a[1] + 4 * a[2] + 8 * a[3] + 16 * a[4]

b32_charsStandard ==
  <<"a", "b", "c", "d", "e", "f", "g", "h", "i", "j", "k", "l", "m", "n", "o", "p",
    "q", "r", "s", "t", "u", "v", "w", "x", "y", "z", "2", "3", "4", "5", "6", "7">>

b32_chars ==
  <<"2", "3", "4", "5", "6", "7", "a", "b", "c", "d", "e", "f", "g", "h", "i", "j",
    "k", "l", "m", "n", "o", "p", "q", "r", "s", "t", "u", "v", "w", "x", "y", "z">>

\* FOR i IN 1..13 LOOP result := substr(b32_chars, (combined & 31) + 1, 1) || result;
\*                     combined := combined >> 5; END LOOP
RECURSIVE TidLoop(_, _, _)
TidLoopAppend(i, combined, result) ==
  IF i > 13 THEN result
  ELSE TidLoop(i + 1, ShiftRight(combined, 5), result \o <<b32_chars[Low5(combined) + 1]>>)

TidLoop(i, combined, result) ==
  IF i > 13 THEN result
  ELSE TidLoop(i + 1, ShiftRight(combined, 5), <<b32_chars[Low5(combined) + 1]>> \o result)

\* combined := (timestamp_us << 10) | clock_id, then the loop.
generate_tid(timestamp_us, clock_id) ==
  TidLoop(1, BitOr(ShiftLeft(timestamp_us, 10), IntToBigint(clock_id)), <<>>)

\* The timestamps of the model: a choice of the five lowest bits (one
\* character of the TID) joined with a choice of one higher bit; 53 and 54
\* lie beyond the 53-bit timestamp field.
LowBitChoices == {{}, {0}, {4}, {1, 3, 4}, {0, 1, 2, 3, 4}}

HighBitChoices == {{}, {5}, {25}, {52}, {53}, {54}}

Timestamps == {low \cup high : low \in LowBitChoices, high \in HighBitChoices}

\* floor(random() * 1024)
ClockIds == {0, 32, 1023}

\* timestamp a is earlier than timestamp b (both non-negative).
Earlier(a, b) == \E i \in b \ a : \A j \in BigintBits : j > i => (j \in a <=> j \in b)

\* One call of generate_tid(): clock_timestamp() does not run backwards.
GenerateTid(ones, clock_id) ==
  /\ tids # <<>> => (tids[Len(tids)].ts = ones \/ Earlier(tids[Len(tids)].ts, ones))
  /\ LET call == [ts |-> ones, clock |-> clock_id,
                  tid |-> generate_tid(Bigint(ones), clock_id)]
     IN tids' = IF Len(tids) < 2 THEN Append(tids, call) ELSE <<tids[2], call>>
  /\ UNCHANGED <<outboxVars, workerVars, ingestVars, cursorVars, laterVars, feedVars>>

(* ------------------------------ feed-logic ------------------------------ *)
\* A text is a sequence of characters: lower-case letters, a capital, the
\* underscore (a word character of the pattern) and the space.
Letters == {"a", "b", "d", "s"}

Capitals == {"B"}

Chars == Letters \cup Capitals \cup {"_", " "}

MaxText == 5

Texts == UNION {[1..n -> Chars] : n \in 0..MaxText}

\* The 'i' flag: characters are compared after case folding.
ToLower(c) == IF c = "B" THEN "b" ELSE c

\* \w of the pattern.
IsWordChar(c) == c \in Letters \cup Capitals \cup {"_"}

\* The entries of the list that are spelled with Chars, in the order of the list.
CANNABIS_KEYWORDS == << <<"d", "a", "b">>, <<"d", "a", "b", "s">> >>

\* kw.replace(/[.*+?^${}()|[\]\\]/g, '\\$&'): none of Chars is in the class,
\* so every pattern is the keyword itself.
keywordPatterns == [n \in DOMAIN CANNABIS_KEYWORDS |-> CANNABIS_KEYWORDS[n]]

\* \b before position i (1..Len+1): exactly one of the two neighbours is a
\* word character.
WordBoundary(text, i) ==
  (i > 1 /\ IsWordChar(text[i - 1])) # (i <= Len(text) /\ IsWordChar(text[i]))

\* The pattern kw read at position i, ignoring case.
MatchesAt(text, i, kw) ==
  /\ i + Len(kw) - 1 <= Len(text)
  /\ \A j \in 1..Len(kw) : ToLower(text[i + j - 1]) = kw[j]

\* (kw1|kw2|...)\b at position i: the alternatives are tried in order, and a
\* failing \b after one alternative sends the matcher back to the next one.
RECURSIVE AlternativesNoBacktrack(_, _, _)
AlternativesNoBacktrack(text, i, n) ==
  IF n > Len(keywordPatterns) THEN FALSE
  ELSE IF MatchesAt(text, i, keywordPatterns[n])
       THEN WordBoundary(text, i + Len(keywordPatterns[n]))
       ELSE AlternativesNoBacktrack(text, i, n + 1)

RECURSIVE Alternatives(_, _, _)
Alternatives(text, i, n) ==
  IF n > Len(keywordPatterns) THEN FALSE
  ELSE IF MatchesAt(text, i, keywordPatterns[n])
          /\ WordBoundary(text, i + Len(keywordPatterns[n]))
       THEN TRUE
       ELSE Alternatives(text, i, n + 1)

\* CANNABIS_REGEX.test(text): the first position, from the left, at which
\* \b(...)\b matches.
RECURSIVE TestFrom(_, _)
TestFrom(text, i) ==
  IF i > Len(text) + 1 THEN FALSE
  ELSE IF WordBoundary(text, i) /\ Alternatives(text, i, 1) THEN TRUE
  ELSE TestFrom(text, i + 1)

CANNABIS_REGEX_test(text) == TestFrom(text, 1)

\* A handle is the sequence of its labels and dots.
NAMESPACE_SUFFIX == <<".", "cannect", ".", "space">>

Handles ==
  { <<>>,
    <<"alice", ".", "cannect", ".", "space">>,
    <<"cannect", ".", "space">>,
    <<"bob", ".", "bsky", ".", "social">>,
    <<"cannect", ".", "space", ".", "evil", ".", "com">> }

endsWith(str, suffix) ==
  /\ Len(str) >= Len(suffix)
  /\ SubSeq(str, Len(str) - Len(suffix) + 1, Len(str)) = suffix

shouldIncludePost(authorHandle, text) ==
  IF authorHandle # <<>> /\ endsWith(authorHandle, NAMESPACE_SUFFIX)
  THEN [include |-> TRUE, reason |-> "cannect_user"]
  ELSE IF text # <<>> /\ CANNABIS_REGEX_test(text)
  THEN [include |-> TRUE, reason |-> "keyword_match"]
  ELSE [include |-> FALSE, reason |-> "no_match"]

\* One call of shouldIncludePost.
Decide(authorHandle, text) ==
  /\ decision = <<>>
  /\ decision' = <<[handle |-> authorHandle, text |-> text,
                    result |-> shouldIncludePost(authorHandle, text)]>>
  /\ UNCHANGED <<outboxVars, workerVars, ingestVars, cursorVars, laterVars, tids, feedIndex, stats, response>>

(* ------------------------------- feed-vps ------------------------------- *)
\* The accounts on the stream and the handle each of them has.
FeedDids == {"did:plc:alice", "did:plc:bob"}

HandleOf(did) ==
  IF did = "did:plc:alice" THEN <<"alice", ".", "cannect", ".", "space">>
  ELSE <<"bob", ".", "bsky", ".", "social">>

FeedRkeys(did) == IF did = "did:plc:alice" THEN {"r1", "r2"} ELSE {"r1"}

MaxFeedTime == 3

FeedTimes == 1..MaxFeedTime

FeedTexts == {<<>>, <<"d", "a", "b">>, <<"a", "b">>}

\* commit.record of a post: text, the $handle field if the record has one,
\* the text of a quoted post if one is embedded, and createdAt if set.  An absent
\* field is the empty sequence.
FeedRecord(text, handle, quoted, createdAt) ==
  [text |-> text, handle |-> handle, quoted |-> quoted, createdAt |-> createdAt]

\* The records an account sends: without a $handle field (a post record has
\* none) or with the account's own handle in it.
FeedRecords(did) ==
  {FeedRecord(t, h, <<>>, c) :
     t \in FeedTexts, h \in {<<>>, HandleOf(did)}, c \in {<<>>, <<1>>}}
  \cup {FeedRecord(<<"a", "b">>, h, << <<"d", "a", "b">> >>, c) :
     h \in {<<>>, HandleOf(did)}, c \in {<<>>, <<1>>}}

FeedEvent(kind, did, operation, rkey, record) ==
  [kind |-> kind, did |-> did, operation |-> operation,
   collection |-> "app.bsky.feed.post", rkey |-> rkey, record |-> record]

\* What the stream sends: post creates with and without a record, deletes,
\* and events that are no commits.
FeedEventsOf(did) ==
  {FeedEvent("commit", did, "create", rkey, <<r>>) :
     rkey \in FeedRkeys(did), r \in FeedRecords(did)}
  \cup {FeedEvent("commit", did, op, rkey, <<>>) :
     op \in {"create", "delete"}, rkey \in FeedRkeys(did)}
  \cup {FeedEvent("identity", did, "create", "r1", <<>>)}

FeedEvents == UNION {FeedEventsOf(did) : did \in FeedDids}

getPostText(record) ==
  IF record.quoted # <<>> THEN record.text \o <<" ">> \o record.quoted[1] ELSE record.text

InIndex(index, uri) == \E i \in 1..Len(index) : index[i].uri = uri

\* db.addPost: one row per URI.
addPost(index, uri, indexedAt) ==
  IF InIndex(index, uri) THEN index ELSE Append(index, [uri |-> uri, indexed_at |-> indexedAt])

RECURSIVE removePost(_, _)
removePost(index, uri) ==
  IF index = <<>> THEN <<>>
  ELSE IF Head(index).uri = uri THEN removePost(Tail(index), uri)
  ELSE <<Head(index)>> \o removePost(Tail(index), uri)

\* db.cleanup(maxAge): the rows older than maxAge go.
RECURSIVE cleanup(_, _)
cleanup(index, cutoff) ==
  IF index = <<>> THEN <<>>
  ELSE IF Head(index).indexed_at < cutoff THEN cleanup(Tail(index), cutoff)
  ELSE <<Head(index)>> \o cleanup(Tail(index), cutoff)

\* The rows newest first; of two rows of the same time the later one first.
RECURSIVE NewestFirst(_)
NewestFirst(index) ==
  IF index = <<>> THEN <<>>
  ELSE LET i == CHOOSE i \in 1..Len(index) :
                  \A j \in 1..Len(index) :
                     \/ index[j].indexed_at < index[i].indexed_at
                     \/ index[j].indexed_at = index[i].indexed_at /\ j <= i
       IN <<index[i]>> \o NewestFirst(SubSeq(index, 1, i - 1) \o SubSeq(index, i + 1, Len(index)))

\* db.getPosts(limit, offset): the URIs of the rows offset+1 .. offset+limit,
\* newest first.
getPosts(index, limit, offset) ==
  LET sorted == NewestFirst(index)
      n == Min(limit, Max(Len(sorted) - offset, 0))
  IN [k \in 1..n |-> sorted[offset + k].uri]

\* handleNewPost(did, commit); at is the value of new Date().
handleNewPost(index, did, commit, at) ==
  IF commit.record = <<>> THEN index
  ELSE LET record == commit.record[1]
           text == getPostText(record)
           handle == record.handle
           result == shouldIncludePost(handle, text)
       IN IF result.include
          THEN addPost(index, AtUri(did, commit.collection, commit.rkey),
                       IF record.createdAt # <<>> THEN record.createdAt[1] ELSE at)
          ELSE index

MaxProcessed == 3

\* handleJetstreamEvent(event); handleNewPost counts what it indexes.
handleJetstreamEventBody(event, at) ==
  IF event.kind # "commit"
  THEN UNCHANGED <<feedIndex, stats>>
  ELSE IF event.operation = "create" /\ event.collection = "app.bsky.feed.post"
  THEN LET index == handleNewPost(feedIndex, event.did, event, at)
           included == event.record # <<>>
                       /\ shouldIncludePost(event.record[1].handle,
                                            getPostText(event.record[1])).include
       IN /\ feedIndex' = index
          /\ stats' = [stats EXCEPT !.processed = @ + 1,
                                    !.indexed = IF included THEN @ + 1 ELSE @]
  ELSE IF event.operation = "delete" /\ event.collection = "app.bsky.feed.post"
  THEN /\ feedIndex' = removePost(feedIndex, AtUri(event.did, event.collection, event.rkey))
       /\ stats' = [stats EXCEPT !.processed = @ + 1, !.deleted = @ + 1]
  ELSE /\ feedIndex' = feedIndex
       /\ stats' = [stats EXCEPT !.processed = @ + 1]

handleJetstreamEvent(event, at) ==
  /\ stats.processed < MaxProcessed
  /\ handleJetstreamEventBody(event, at)
  /\ UNCHANGED <<outboxVars, workerVars, ingestVars, cursorVars, laterVars, tids, decision, response>>

Retention == 1

\* runCleanup(), every hour.
runCleanup(at) ==
  /\ feedIndex' = cleanup(feedIndex, at - Retention)
  /\ UNCHANGED <<outboxVars, workerVars, ingestVars, cursorVars, laterVars, tids, decision, stats, response>>

DefaultLimit == 30

MaxLimit == 100

MaxOffset == 3

\* req.query.limit: absent, or a number.
LimitParams == {<<>>, <<0>>, <<1>>, <<2>>, <<200>>}

\* req.query.cursor is "timestamp:offset"; a cursor is held as the parts
\* that cursor.split(':') returns.  Absent, a text without a colon, or
\* both parts.
CursorParams ==
  {<<>>, <<MaxFeedTime>>} \cup {<<MaxFeedTime, offset>> : offset \in 0..MaxOffset}

\* Math.min(parseInt(req.query.limit) || 30, 100)
ParseLimit(param) ==
  Min(IF param = <<>> \/ param[1] = 0 THEN DefaultLimit ELSE param[1], MaxLimit)

\* parseInt(cursor.split(':')[1]) || 0
ParseOffset(cursor) == IF Len(cursor) >= 2 THEN cursor[2] ELSE 0

getFeedSkeletonCursorIfMore(index, limitParam, cursor, at) ==
  LET limit == ParseLimit(limitParam)
      offset == ParseOffset(cursor)
      found == getPosts(index, limit, offset)
  IN [feed |-> found,
      cursor |-> IF offset + Len(found) < Len(index) THEN <<at, offset + limit>> ELSE <<>>]

\* The getFeedSkeleton handler: the response.
getFeedSkeleton(index, limitParam, cursor, at) ==
  LET limit == ParseLimit(limitParam)
      offset == ParseOffset(cursor)
      found == getPosts(index, limit, offset)
  IN [feed |-> found,
      cursor |-> IF Len(found) = limit THEN <<at, offset + limit>> ELSE <<>>]

\* One request; the cursor is any of CursorParams or the one the last
\* response carried.
GetFeedSkeleton(limitParam, cursor, at) ==
  /\ response' = <<[limit |-> ParseLimit(limitParam), offset |-> ParseOffset(cursor),
                    out |-> getFeedSkeleton(feedIndex, limitParam, cursor, at)]>>
  /\ UNCHANGED <<outboxVars, workerVars, ingestVars, cursorVars, laterVars, tids, decision, feedIndex, stats>>

(* ------------------------- a consumer of the feed ---------------------- *)
PageSize == 1

NewConsumer == [state |-> "new", cursor |-> <<>>, pages |-> <<>>, first |-> {}]

RowsOfIndex(index) == {index[n] : n \in 1..Len(index)}

\* The consumer asks for its next page with the cursor of the last response,
\* until a response comes without one.
FollowCursor(at) ==
  /\ consumer.state # "done"
  /\ LET out == getFeedSkeleton(feedIndex, <<PageSize>>, consumer.cursor, at)
     IN consumer' = [state |-> IF out.cursor = <<>> THEN "done" ELSE "paging",
                     cursor |-> out.cursor,
                     pages |-> Append(consumer.pages, out.feed),
                     first |-> IF consumer.state = "new" THEN RowsOfIndex(feedIndex)
                               ELSE consumer.first]
  /\ UNCHANGED exceptPaging

(* ============================ AppView backfill ========================= *)
\* The repositories of the PDS and their records: they do not change.
Repos == {"did:plc:a", "did:plc:b"}

RemotePosts ==
  { [uri |-> "at://did:plc:a/app.bsky.feed.post/1", cid |-> "cid-a1", did |-> "did:plc:a"],
    [uri |-> "at://did:plc:b/app.bsky.feed.post/1", cid |-> "cid-b1", did |-> "did:plc:b"] }

RemoteFollows ==
  { [uri |-> "at://did:plc:a/app.bsky.graph.follow/1", subject |-> "did:plc:b",
     did |-> "did:plc:a"] }

MaxClock == 2
MaxImages == 2
MaxRuns == 2

\* createDb(): the empty tables; foreign_keys = ON.
createDb ==
  [profiles |-> {}, posts |-> {}, follows |-> {}, post_images |-> {},
   image_seq |-> 0, clock |-> 0, phase |-> "idle", runs |-> 0]

\* INSERT INTO profiles ... ON CONFLICT(did) DO UPDATE SET ..., indexed_at = datetime('now')
UpsertProfile(rows, did, at) ==
  {p \in rows : p.did # did} \cup {[did |-> did, indexed_at |-> at]}

\* DELETE of a posts row: post_images.post_uri ... ON DELETE CASCADE
CascadeImages(images, uri) == {i \in images : i.post_uri # uri}

\* INSERT OR REPLACE INTO posts: the row with the same uri is deleted, which
\* cascades to its post_images rows, and the new row is inserted with
\* indexed_at defaulting to datetime('now').
ReplacePost(db, record, at) ==
  [db EXCEPT
     !.posts = {p \in db.posts : p.uri # record.uri}
                 \cup {[uri |-> record.uri, cid |-> record.cid,
                        author_did |-> record.did, indexed_at |-> at]},
     !.post_images = IF \E p \in db.posts : p.uri = record.uri
                     THEN CascadeImages(db.post_images, record.uri)
                     ELSE db.post_images]

\* INSERT OR REPLACE INTO follows
ReplaceFollow(db, record, at) ==
  [db EXCEPT
     !.follows = {f \in db.follows : f.uri # record.uri}
                   \cup {[uri |-> record.uri, subject_did |-> record.subject,
                          author_did |-> record.did, indexed_at |-> at]}]

\* for (const record of data.records): every record of every repository.
RECURSIVE ReplacePosts(_, _, _)
ReplacePosts(db, records, at) ==
  IF records = {} THEN db
  ELSE LET record == CHOOSE r \in records : TRUE
       IN  ReplacePosts(ReplacePost(db, record, at), records \ {record}, at)

RECURSIVE ReplaceFollows(_, _, _)
ReplaceFollows(db, records, at) ==
  IF records = {} THEN db
  ELSE LET record == CHOOSE r \in records : TRUE
       IN  ReplaceFollows(ReplaceFollow(db, record, at), records \ {record}, at)

RECURSIVE UpsertProfiles(_, _, _)
UpsertProfiles(rows, dids, at) ==
  IF dids = {} THEN rows
  ELSE LET did == CHOOSE d \in dids : TRUE
       IN  UpsertProfiles(UpsertProfile(rows, did, at), dids \ {did}, at)

\* backfillFromPds: getAllRepos, then the profiles, ...
backfillProfiles ==
  /\ appviewDb.phase = "idle"
  /\ appviewDb.runs < MaxRuns
  /\ appviewDb' = [appviewDb EXCEPT
                     !.profiles = UpsertProfiles(@, Repos, appviewDb.clock),
                     !.phase = "posts"]
  /\ UNCHANGED exceptBackfill

\* ... then the posts of every repository (a post whose author has no profile
\* row breaks the foreign key; the profiles are there by now), ...
backfillPosts ==
  /\ appviewDb.phase = "posts"
  /\ appviewDb' = [ReplacePosts(appviewDb, RemotePosts, appviewDb.clock)
                     EXCEPT !.phase = "follows"]
  /\ UNCHANGED exceptBackfill

\* ... then the follows (the likes and reposts are commented out).
backfillFollows ==
  /\ appviewDb.phase = "follows"
  /\ appviewDb' = [ReplaceFollows(appviewDb, RemoteFollows, appviewDb.clock)
                     EXCEPT !.phase = "idle", !.runs = @ + 1]
  /\ UNCHANGED exceptBackfill

\* A row of post_images for an indexed post (id INTEGER PRIMARY KEY AUTOINCREMENT,
\* post_uri REFERENCES posts(uri)).
insertPostImage(uri) ==
  /\ appviewDb.image_seq < MaxImages
  /\ \E p \in appviewDb.posts : p.uri = uri
  /\ appviewDb' = [appviewDb EXCEPT
                     !.image_seq = @ + 1,
                     !.post_images = @ \cup {[id |-> appviewDb.image_seq + 1, post_uri |-> uri]}]
  /\ UNCHANGED exceptBackfill

\* datetime('now') moves on.
TickAppView ==
  /\ appviewDb.clock < MaxClock
  /\ appviewDb' = [appviewDb EXCEPT !.clock = @ + 1]
  /\ UNCHANGED exceptBackfill


(* ====================== feed-vps: the stream connection ================ *)
MaxSockets == 3
MaxEmitted == 2

BaseDelay == 1000
MaxDelay == 30000

RECURSIVE Pow2(_)
Pow2(n) == IF n = 0 THEN 1 ELSE 2 * Pow2(n - 1)

\* What the network puts on the stream: bytes that are no JSON, an event
\* that is no commit, a commit of another collection, and a post that
\* matches a keyword.
KeywordPost ==
  FeedEvent("commit", "did:plc:bob", "create", "r1",
            <<FeedRecord(<<"d", "a", "b">>, <<>>, <<>>, <<>>)>>)

StreamMessages ==
  {[parses |-> FALSE, event |-> FeedEvent("identity", "did:plc:bob", "create", "r1", <<>>)],
   [parses |-> TRUE, event |-> FeedEvent("identity", "did:plc:bob", "create", "r1", <<>>)],
   [parses |-> TRUE,
    event |-> [FeedEvent("commit", "did:plc:bob", "create", "r1", <<>>)
                 EXCEPT !.collection = "app.bsky.feed.like"]],
   [parses |-> TRUE, event |-> KeywordPost]}

\* let ws = null; let reconnectAttempts = 0; nothing is connected before
\* app.listen calls back.
Started ==
  [sockets |-> <<>>, timers |-> <<>>, reconnectAttempts |-> 0, running |-> TRUE,
   stream |-> <<>>, seen |-> {}]

OpenSockets(c) == {n \in 1..Len(c.sockets) : c.sockets[n] = "open"}

LiveSockets(c) == {n \in 1..Len(c.sockets) : c.sockets[n] # "closed"}

\* connectJetstream(): ws = new WebSocket(JETSTREAM_URL), the URL carries no cursor.
connectJetstream(c) == [c EXCEPT !.sockets = Append(@, "connecting")]

\* scheduleReconnect()
scheduleReconnect(c) ==
  [c EXCEPT !.reconnectAttempts = @ + 1,
            !.timers = Append(@, Min(BaseDelay * Pow2(c.reconnectAttempts + 1), MaxDelay))]

\* ws.on('error'): the error is logged.
onErrorHandlerReconnecting(c) == scheduleReconnect(c)

onErrorHandler(c) == c

\* ws.on('message'): try { JSON.parse; handleJetstreamEvent } catch { }.
\* What is left of the process when the listener returns.
afterMessageNoCatch(c, data) ==
  IF data.parses THEN c
  ELSE [c EXCEPT !.running = FALSE, !.sockets = [n \in DOMAIN @ |-> "closed"]]

afterMessage(c, data) == c

\* app.listen's callback: the first connection.
listen ==
  /\ conn.running
  /\ conn.sockets = <<>>
  /\ conn' = connectJetstream(conn)
  /\ UNCHANGED <<exceptConn, feedVars>>

\* ws.on('open')
onOpen(n) ==
  /\ conn.running
  /\ n \in DOMAIN conn.sockets
  /\ conn.sockets[n] = "connecting"
  /\ conn' = [conn EXCEPT !.sockets[n] = "open", !.reconnectAttempts = 0]
  /\ UNCHANGED <<exceptConn, feedVars>>

\* The socket fails, while connecting or when open: it emits 'error', and
\* 'close' is still to come.
onError(n) ==
  /\ conn.running
  /\ n \in DOMAIN conn.sockets
  /\ conn.sockets[n] \in {"connecting", "open"}
  /\ Len(conn.sockets) < MaxSockets
  /\ conn' = onErrorHandler([conn EXCEPT !.sockets[n] = "errored"])
  /\ UNCHANGED <<exceptConn, feedVars>>

\* ws.on('close'), after an error or when the server ends the connection.
onClose(n) ==
  /\ conn.running
  /\ n \in DOMAIN conn.sockets
  /\ conn.sockets[n] \in {"open", "errored"}
  /\ Len(conn.sockets) < MaxSockets
  /\ conn' = scheduleReconnect([conn EXCEPT !.sockets[n] = "closed"])
  /\ UNCHANGED <<exceptConn, feedVars>>

\* setTimeout(connectJetstream, delay) fires.
onTimer ==
  /\ conn.running
  /\ conn.timers # <<>>
  /\ conn' = connectJetstream([conn EXCEPT !.timers = Tail(@)])
  /\ UNCHANGED <<exceptConn, feedVars>>

\* The network emits its next message.  An open socket hands it to the
\* 'message' listener; without one the message passes by.
StreamEmits(data, at) ==
  /\ conn.running
  /\ Len(conn.stream) < MaxEmitted
  /\ IF OpenSockets(conn) # {}
     THEN /\ conn' = afterMessage([conn EXCEPT !.stream = Append(@, data),
                                               !.seen = @ \cup {Len(conn.stream) + 1}], data)
          /\ IF data.parses THEN handleJetstreamEventBody(data.event, at)
             ELSE UNCHANGED <<feedIndex, stats>>
     ELSE /\ conn' = [conn EXCEPT !.stream = Append(@, data)]
          /\ UNCHANGED <<feedIndex, stats>>
  /\ UNCHANGED <<exceptConn, decision, response>>

\* SIGTERM / SIGINT: ws.close(), db.close(), process.exit(0).
shutdown ==
  /\ conn.running
  /\ conn' = [conn EXCEPT !.running = FALSE, !.timers = <<>>,
                          !.sockets = [n \in DOMAIN @ |-> "closed"]]
  /\ UNCHANGED <<exceptConn, feedVars>>

Init ==
  /\ tids = <<>>
  /\ cached = {}
  /\ appviewDb = createDb
  /\ raised = <<>>
  /\ conn = Started
  /\ consumer = NewConsumer
  /\ decision = <<>>
  /\ feedIndex = <<>>
  /\ stats = [processed |-> 0, indexed |-> 0, deleted |-> 0]
  /\ response = <<>>
  /\ notifications = EmptyBag
  /\ inv = [i \in Invocations |-> Idle]
  /\ delivered = {}
  /\ jetstream_cursor = NoCursor
  /\ now = 0
  /\ poll = [p \in Pollers |-> PollIdle]
  /\ posts = <<>>
  /\ likes = <<>>
  /\ reposts = <<>>
  /\ follows = <<>>
  /\ federation_queue = <<>>
  /\ migrated = FALSE
  /\ wpc = [w \in Workers |-> "idle"]
  /\ batch = [w \in Workers |-> <<>>]

\* Next to post 1, one kind of record is exercised per behaviour: a thread
\* (the other posts, replies to post 1), likes, reposts or follows.  The triggers of different
\* tables write disjoint queue keys.
KindOfRow(r) ==
  IF r.record_type \in {"post", "reply"}
  THEN (IF r.record_id = 1 THEN "base" ELSE "thread")
  ELSE r.record_type

OnlyKind(kind) ==
  /\ kind # "thread" => DOMAIN posts \subseteq {1}
  /\ kind # "like" => likes = <<>>
  /\ kind # "repost" => reposts = <<>>
  /\ kind # "follow" => follows = <<>>
  /\ \A i \in 1..Len(federation_queue) : KindOfRow(federation_queue[i]) \in {"base", kind}

Staging ==
  \/ \E u \in Users, k \in Rkeys : InsertPost(1, u, NoId, NoId, k)
  \/ /\ OnlyKind("thread")
     /\ \E p \in PostIds \ {1}, u \in Users, root \in {NoId, 1}, k \in Rkeys :
          InsertPost(p, u, 1, root, k)
  \/ \E p \in PostIds : DeletePost(p)
  \/ /\ OnlyKind("like")
     /\ \E l \in LikeIds, u \in Users, post_id \in {NoId} \cup PostIds, k \in Rkeys,
           suri \in ClientUris, scid \in ClientCids :
             InsertLike(l, u, post_id, suri, scid, k)
  \/ \E l \in LikeIds : DeleteLike(l)
  \/ /\ OnlyKind("repost")
     /\ \E r \in RepostIds, u \in Users, post_id \in {NoId} \cup PostIds, k \in Rkeys,
           suri \in ClientUris, scid \in ClientCids :
             InsertRepost(r, u, post_id, suri, scid, k)
  \/ \E r \in RepostIds : DeleteRepost(r)
  \/ /\ OnlyKind("follow")
     /\ \E f \in FollowIds, u \in Users, target \in Users \cup {Null},
           sdid \in {Null, "did:plc:ext"}, k \in Rkeys : InsertFollow(f, u, target, sdid, k)
  \/ \E f \in FollowIds : DeleteFollow(f)
  \/ Migrate171000

AllOutcomes == {"ok", "exists", "transient", "rejected"}

FinalOutcomes == {"ok", "exists", "rejected"}

\* The record builder with one Sync Worker instance draining the queue; every
\* call of the worker ends the row (the retry path is exercised in SpecWorkers).
Next ==
  \/ Staging
  \/ WorkerPoll("w1")
  \/ \E outcome \in FinalOutcomes : WorkerDeliver("w1", outcome)

Spec == Init /\ [][Next]_vars

\* Posts only, drained by every Sync Worker instance.
NextWorkers ==
  \/ \E u \in Users, k \in Rkeys : InsertPost(1, u, NoId, NoId, k)
  \/ DeletePost(1)
  \/ \E w \in Workers : WorkerPoll(w)
  \/ \E w \in Workers, outcome \in AllOutcomes : WorkerDeliver(w, outcome)

SpecWorkers == Init /\ [][NextWorkers]_vars

\* The ingestion handler, one invocation at a time.
NextIngestSeq ==
  \/ \E event \in Events : Receive("i1", event)
  \/ upsert_external_profile(OtherDid)
  \/ Select("i1")
  \/ Insert("i1")

SpecIngestSeq == Init /\ [][NextIngestSeq]_vars

\* The ingestion handler with overlapping invocations.
NextIngest ==
  \/ \E i \in Invocations, event \in Events : Receive(i, event)
  \/ \E i \in Invocations : Select(i)
  \/ \E i \in Invocations : Insert(i)

SpecIngest == Init /\ [][NextIngest]_vars

\* The cursor row under the two scheduled pollers.
NextCursor ==
  \/ Tick
  \/ InitCursor
  \/ \E p \in Pollers : PollStart(p)
  \/ \E p \in Pollers, last \in 0..MaxTime : PollFetch(p, last)
  \/ \E p \in Pollers : PollPersist(p)

SpecCursor == Init /\ [][NextCursor]_vars

\* Record keys generated one after the other.
NextTid == \E ones \in Timestamps, clock_id \in ClockIds : GenerateTid(ones, clock_id)

SpecTid == Init /\ [][NextTid]_vars

\* The feed predicate, called once on any handle and text.
NextFeedLogic ==
  /\ decision = <<>>
  /\ \E authorHandle \in Handles, text \in Texts : Decide(authorHandle, text)

SpecFeedLogic == Init /\ [][NextFeedLogic]_vars

\* The feed generator: the stream, the hourly cleanup and the skeleton endpoint.
NextFeed ==
  \/ \E event \in FeedEvents, at \in FeedTimes : handleJetstreamEvent(event, at)
  \/ \E at \in FeedTimes : runCleanup(at)
  \/ \E limitParam \in LimitParams, at \in FeedTimes,
        cursor \in CursorParams \cup {response[n].out.cursor : n \in 1..Len(response)} :
          GetFeedSkeleton(limitParam, cursor, at)

SpecFeed == Init /\ [][NextFeed]_vars

\* The AppView: backfill runs, the indexer attaching images, the clock.
NextBackfill ==
  \/ backfillProfiles
  \/ backfillPosts
  \/ backfillFollows
  \/ \E record \in RemotePosts : insertPostImage(record.uri)
  \/ TickAppView

SpecBackfill == Init /\ [][NextBackfill]_vars

\* Client statements of the federated user, with and without an error inside
\* the staging trigger.
Tables == {"posts", "likes", "reposts", "follows"}

RecordTypesOf(table) ==
  CASE table = "posts" -> {"post", "reply"}
    [] table = "likes" -> {"like"}
    [] table = "reposts" -> {"repost"}
    [] table = "follows" -> {"follow"}

\* One table per behaviour: the other tables stay empty.
OnlyTable(table) ==
  /\ \A t \in Tables \ {table} : TableOf(t) = <<>>
  /\ \A i \in 1..Len(federation_queue) :
        federation_queue[i].record_type \in RecordTypesOf(table)
  /\ raised # <<>> => raised[1].table = table

NextStaging ==
  \/ OnlyTable("posts") /\ InsertPost(1, "x", NoId, NoId, "k1")
  \/ DeletePost(1)
  \/ OnlyTable("likes") /\ InsertLike(1, "x", NoId, ExtUri, ExtCid, "k1")
  \/ DeleteLike(1)
  \/ OnlyTable("reposts") /\ InsertRepost(1, "x", NoId, ExtUri, ExtCid, "k1")
  \/ DeleteRepost(1)
  \/ OnlyTable("follows") /\ InsertFollow(1, "x", Null, "did:plc:ext", "k1")
  \/ DeleteFollow(1)
  \/ Migrate171000
  \/ \E table \in Tables : OnlyTable(table) /\ InsertRaises(table, 1)
  \/ \E table \in Tables : DeleteRaises(table, 1)

SpecStaging == Init /\ [][NextStaging]_vars

\* The feed generator with a consumer that pages through the feed: keyword
\* posts come and go between its requests.
PagingEvents ==
  {event \in FeedEvents :
     /\ event.kind = "commit"
     /\ event.operation = "create"
          => event.record = <<FeedRecord(<<"d", "a", "b">>, <<>>, <<>>, <<>>)>>}

NextPaging ==
  \/ \E event \in PagingEvents, at \in FeedTimes : handleJetstreamEvent(event, at)
  \/ \E at \in FeedTimes : runCleanup(at)
  \/ FollowCursor(MaxFeedTime)

SpecPaging == Init /\ [][NextPaging]_vars

\* A thread of three posts of the federated user, each with a key of its
\* own, and one Sync Worker instance.
NextThread ==
  \/ InsertPost(1, "x", NoId, NoId, "k1")
  \/ \E root \in {NoId, 1} : InsertPost(2, "x", 1, root, "k2")
  \/ InsertPost(3, "x", 2, 1, "k3")
  \/ WorkerPoll("w1")
  \/ \E outcome \in AllOutcomes : WorkerDeliver("w1", outcome)

SpecThread == Init /\ [][NextThread]_vars

\* Post creates that reply, quote, or do both.
PostOf(actorDid, parent, quoted) ==
  Event(actorDid, "app.bsky.feed.post", "create", NoUri, Null, parent, quoted)

PostEvents ==
  {PostOf(actorDid, parent, quoted) :
     actorDid \in {ExtDid, OtherDid, profiles["x"].did},
     parent \in {NoUri, HandleUri("x", "a"), DidUri(profiles["x"].did, "c"),
                 HandleUri("x", "gone"), DidUri(ExtDid, "e")},
     quoted \in {NoUri, HandleUri("x", "b"), DidUri(ExtDid, "e")}}

NextPosts ==
  \/ \E event \in PostEvents : Receive("i1", event)
  \/ Select("i1")
  \/ Insert("i1")

SpecPosts == Init /\ [][NextPosts]_vars

\* The requests the ingestion handler gets next to the stream: a body that
\* is no event, an event of an unknown collection, a delete, and a like of
\* a local post.
MalformedBody == Event(Null, Null, Null, NoUri, Null, NoUri, NoUri)

UnknownCollection ==
  Event(ExtDid, "app.bsky.feed.generator", "create", NoUri, Null, NoUri, NoUri)

LikeDelete == Event(ExtDid, "app.bsky.feed.like", "delete", HandleUri("x", "a"), Null, NoUri, NoUri)

ProbeEvents == {MalformedBody, UnknownCollection, LikeDelete, LikeOf(ExtDid, HandleUri("x", "a"))}

\* The feed indexer's process and the ingestion handler.
NextConn ==
  \/ listen
  \/ \E n \in 1..MaxSockets : onOpen(n)
  \/ \E n \in 1..MaxSockets : onError(n)
  \/ \E n \in 1..MaxSockets : onClose(n)
  \/ onTimer
  \/ \E data \in StreamMessages : StreamEmits(data, 1)
  \/ shutdown
  \/ \E event \in ProbeEvents : Receive("i1", event)
  \/ Select("i1")
  \/ Insert("i1")

SpecConn == Init /\ [][NextConn]_vars

\* The same under the scheduling of the process: a timer that was set
\* fires, and a connection attempt that does not fail opens.
SpecConnLive ==
  /\ Init
  /\ [][NextConn]_vars
  /\ WF_vars(onTimer)
  /\ WF_vars(\E n \in 1..MaxSockets : onOpen(n))

(* ============================ outbox properties ======================== *)
QueueKeys(q) == {KeyOf(q[i]) : i \in 1..Len(q)}

\* C1: no two outbox rows share (record_type, record_id, operation), and a
\* staging trigger that fires again for a key already in the outbox leaves
\* exactly one row for that key.
C1_Step ==
  /\ \A k \in QueueKeys(federation_queue') :
        Cardinality(RowsWithKey(federation_queue', k)) = 1
  /\ QueueKeys(federation_queue) \subseteq QueueKeys(federation_queue')

C1_UniqueKey == [][C1_Step]_vars

\* A create trigger has fired again for a key already staged: through the
\* upsert (the create row of post 1 is newer than its delete row) and through
\* the plain INSERT of 20251221171000 (a like whose own values resolve the
\* subject, left without at_uri because its key was already in the outbox).
C1_Refired ==
  /\ \E i, j \in 1..Len(federation_queue) :
        /\ i < j
        /\ KeyOf(federation_queue[i]) = <<"post", 1, "delete">>
        /\ KeyOf(federation_queue[j]) = <<"post", 1, "create">>
  /\ migrated
  /\ 1 \in DOMAIN likes
  /\ likes[1].user_id = "x"
  /\ likes[1].subject_uri # Null /\ likes[1].subject_cid # Null
  /\ likes[1].at_uri = Null
  /\ HasKey(federation_queue, <<"like", 1, "create">>)

IsSubjectCreate(r) == r.record_type \in {"like", "repost"} /\ r.operation = "create"

\* The like or repost row id has just been inserted without a resolvable
\* subject content hash.
InsertedUnresolved(tbl, tblAfter, ptbl) ==
  \E id \in (DOMAIN tblAfter) \ (DOMAIN tbl) : ResolveSubject(ptbl, tblAfter[id]).cid = Null

\* C2: every staged like/repost create carries a non-null subject URI and
\* subject content hash, and an insert whose subject hash resolves neither
\* from the row nor from the posts table creates no outbox row.
C2_Step ==
  /\ \A i \in 1..Len(federation_queue') :
        IsSubjectCreate(federation_queue'[i]) =>
          /\ federation_queue'[i].record_data.subject_uri # Null
          /\ federation_queue'[i].record_data.subject_cid # Null
  /\ InsertedUnresolved(likes, likes', posts) => federation_queue' = federation_queue
  /\ InsertedUnresolved(reposts, reposts', posts) => federation_queue' = federation_queue

C2_SubjectResolved == [][C2_Step]_vars

\* A like or repost staged with the subject read from the posts table.
C2_StagedFromPosts ==
  \E i \in 1..Len(federation_queue) :
    /\ IsSubjectCreate(federation_queue[i])
    /\ 1 \in DOMAIN posts
    /\ posts[1].at_cid # Null
    /\ federation_queue[i].record_data.subject_uri = posts[1].at_uri
    /\ federation_queue[i].record_data.subject_cid = posts[1].at_cid

\* Post p has its create entry staged and no confirmed content hash yet.
Unconfirmed(p) ==
  /\ p \in DOMAIN posts
  /\ posts[p].at_cid = Null
  /\ \E i \in 1..Len(federation_queue) :
        /\ federation_queue[i].record_id = p
        /\ federation_queue[i].record_type \in {"post", "reply"}
        /\ federation_queue[i].operation = "create"
        /\ federation_queue[i].status = "pending"

\* C3 as stated: a like on a local post whose create entry is staged but not
\* yet confirmed creates no outbox row, whatever subject values the client
\* put on the like row.
C3_AnyClientValues ==
  [][\A l \in LikeIds, u \in Users, p \in PostIds, k \in Rkeys,
        suri \in ClientUris, scid \in ClientCids :
       (Unconfirmed(p) /\ InsertLike(l, u, p, suri, scid, k))
         => federation_queue' = federation_queue]_vars

\* C3 amended: a like on a local post whose create entry is staged but not yet
\* confirmed creates no outbox row unless the like row itself carries both a
\* subject URI and a subject content hash.
C3_RowValuesMissing ==
  [][\A l \in LikeIds, u \in Users, p \in PostIds, k \in Rkeys,
        suri \in ClientUris, scid \in ClientCids :
       (Unconfirmed(p) /\ (suri = Null \/ scid = Null) /\ InsertLike(l, u, p, suri, scid, k))
         => federation_queue' = federation_queue]_vars

\* A federated user's like sits unstaged on an unconfirmed post.
C3_LikeNotStaged ==
  /\ Unconfirmed(1)
  /\ 1 \in DOMAIN likes
  /\ likes[1].user_id = "x"
  /\ likes[1].post_id = 1
  /\ likes[1].at_uri = Null
  /\ ~HasKey(federation_queue, <<"like", 1, "create">>)

\* The Sync Worker w delivers the create row of post p and the remote
\* repository accepts the record.
DeliversPost(w, p) ==
  /\ batch[w] # <<>>
  /\ Head(batch[w]) = <<"post", p, "create">>
  /\ WorkerDeliver(w, "ok")

\* C4: a post created by an identity with a DID gets exactly one (post,
\* create) row, pending; right after the Sync Worker delivers that row
\* successfully the row is done and the post row holds a URI and a content hash.
C4_Step ==
  /\ \A p \in PostIds, u \in Users, k \in Rkeys :
        (profiles[u].did # Null /\ InsertPost(p, u, NoId, NoId, k)) =>
          /\ Cardinality(RowsWithKey(federation_queue', <<"post", p, "create">>)) = 1
          /\ \A i \in RowsWithKey(federation_queue', <<"post", p, "create">>) :
                federation_queue'[i].status = "pending"
  /\ \A w \in Workers, p \in PostIds :
        DeliversPost(w, p) =>
          /\ \A i \in RowsWithKey(federation_queue', <<"post", p, "create">>) :
                federation_queue'[i].status = "done"
          /\ p \in DOMAIN posts' => posts'[p].at_uri # Null /\ posts'[p].at_cid # Null

C4_PostStagedAndConfirmed == [][C4_Step]_vars

\* Post 1 was staged again after an earlier delivery, then delivered: its row
\* is done and the post is confirmed.
C4_Delivered ==
  /\ 1 \in DOMAIN posts
  /\ posts[1].at_uri # Null /\ posts[1].at_cid # Null
  /\ \E i, j \in 1..Len(federation_queue) :
        /\ i < j
        /\ KeyOf(federation_queue[i]) = <<"post", 1, "delete">>
        /\ KeyOf(federation_queue[j]) = <<"post", 1, "create">>
        /\ federation_queue[j].status = "done"

(* =========================== ingestion properties ====================== *)
\* The number of notification rows for (owner, reason, actor, post).
RowsFor(n, params) == CopiesIn(insertData(params), n)

\* Invocation i ends in this step.
Completes(i) == inv[i].pc \in {"select", "insert"} /\ inv'[i].pc = "idle"

\* C5: when the handling of a like event ends and the same event had been
\* handled to completion before, exactly one notification row exists for its
\* (owner, like, actor, post).
C5_Step ==
  (/\ Completes("i1")
   /\ inv["i1"].params.reason = "like"
   /\ inv["i1"].event \in delivered)
     => RowsFor(notifications', inv["i1"].params) = 1

C5_ExactlyOneAfterRedelivery == [][C5_Step]_vars

\* C6: in every reachable state at most one notification row exists for any
\* (owner, reason, actor, post).
C6_AtMostOnePerKey == \A row \in BagToSet(notifications) : CopiesIn(row, notifications) <= 1

\* C7: the dedup query ends an invocation as a duplicate exactly when a
\* notification with the same owner, reason, actor and post exists.
C7_Step ==
  \A i \in Invocations :
    inv[i].pc = "select" /\ inv'[i].pc # "select" =>
      (inv'[i].pc = "idle" <=> RowsFor(notifications, inv[i].params) > 0)

C7_KeyedByFourValues == [][C7_Step]_vars

C9_Step ==
  /\ \A i \in 1..Len(federation_queue') :
        federation_queue'[i].attempts >= MaxAttempts =>
          /\ federation_queue'[i].status = "failed"
          /\ federation_queue'[i].last_error # Null
  /\ \A w \in Workers, outcome \in AllOutcomes :
        (batch[w] # <<>> /\ WorkerDeliver(w, outcome)) =>
          federation_queue[RowIndex(federation_queue, Head(batch[w]))].attempts < MaxAttempts

C9_NoSixthAttempt == [][C9_Step]_vars

\* C10: no outbox row is held for delivery by two Sync Worker instances at
\* the same time.
C10_NoDoubleClaim ==
  \A w1, w2 \in Workers :
    w1 # w2 =>
      {batch[w1][i] : i \in 1..Len(batch[w1])} \cap {batch[w2][i] : i \in 1..Len(batch[w2])} = {}

(* ============================== TID properties ========================= *)
\* The code point of each symbol of the alphabet, the order text compares by.
Ascii(ch) ==
  LET pos == CHOOSE i \in 1..32 : b32_charsStandard[i] = ch
  IN IF pos <= 26 THEN 96 + pos ELSE 23 + pos

\* Bit p of (timestamp << 10 | clock) when the timestamp fits its 53 bits.
CombinedBit(call, p) ==
  IF p < 10 THEN (call.clock \div 2^p) % 2
  ELSE IF (p - 10) \in call.ts THEN 1 ELSE 0

InField(ones) == \A i \in ones : i < 53

\* C11: every generated TID has exactly 13 characters of the sortable
\* alphabet, and for a timestamp within the 53-bit field character j (from
\* the left) is the symbol of bits 5*(13-j)+4 .. 5*(13-j) of
\* (timestamp << 10 | clock).
C11_TidFormat ==
  \A k \in 1..Len(tids) :
    /\ Len(tids[k].tid) = 13
    /\ \A j \in 1..13 : \E n \in 1..32 : tids[k].tid[j] = b32_chars[n]
    /\ InField(tids[k].ts) =>
         \A j \in 1..13 :
           tids[k].tid[j] =
             b32_chars[1 + CombinedBit(tids[k], 5 * (13 - j))
                         + 2 * CombinedBit(tids[k], 5 * (13 - j) + 1)
                         + 4 * CombinedBit(tids[k], 5 * (13 - j) + 2)
                         + 8 * CombinedBit(tids[k], 5 * (13 - j) + 3)
                         + 16 * CombinedBit(tids[k], 5 * (13 - j) + 4)]

\* A TID of a timestamp with its top field bit set and the largest clock value.
C11_TopBitAndFullClock ==
  \E k \in 1..Len(tids) : 52 \in tids[k].ts /\ tids[k].clock = 1023

\* a < b as text.
TidLess(a, b) ==
  \E i \in 1..Len(b) :
    /\ i <= Len(a) => Ascii(a[i]) < Ascii(b[i])
    /\ \A j \in 1..(i - 1) : j <= Len(a) /\ a[j] = b[j]

\* C12: of two TIDs generated one after the other for timestamps t1 < t2
\* within the 53-bit field, the first is lexicographically smaller,
\* whatever the two clock values.
C12_TidIncreasing ==
  (/\ Len(tids) = 2
   /\ InField(tids[1].ts) /\ InField(tids[2].ts)
   /\ Earlier(tids[1].ts, tids[2].ts))
    => TidLess(tids[1].tid, tids[2].tid)

\* Two calls one microsecond apart, the earlier with the larger clock value.
C12_ClockDoesNotDecide ==
  /\ Len(tids) = 2
  /\ tids[1].ts = {52}
  /\ tids[2].ts = {0, 52}
  /\ tids[1].clock = 1023
  /\ tids[2].clock = 0
  /\ TidLess(tids[1].tid, tids[2].tid)

(* ====================== outbox properties, continued =================== *)
\* The outbox keys a step stages: an inserted entity whose trigger reaches its
\* INSERT INTO federation_queue (the owner has a DID and, for a like or a
\* repost, the subject resolves), and a deleted entity that carries its
\* record key and URI.
PostType(row) == IF row.thread_parent_id # NoId THEN "reply" ELSE "post"

Inserted(tbl, tblAfter) == (DOMAIN tblAfter) \ (DOMAIN tbl)

Deleted(tbl, tblAfter) == (DOMAIN tbl) \ (DOMAIN tblAfter)

Addressed(row, owner) ==
  row.at_uri # Null /\ row.rkey # Null /\ profiles[owner].did # Null

SubjectResolves(ptbl, row) ==
  ResolveSubject(ptbl, row).uri # Null /\ ResolveSubject(ptbl, row).cid # Null

FollowResolves(row) ==
  \/ row.subject_did # Null
  \/ row.following_id \in Users /\ profiles[row.following_id].did # Null

StagedKeys ==
  {<<PostType(posts'[p]), p, "create">> :
      p \in {j \in Inserted(posts, posts') : profiles[posts'[j].user_id].did # Null}}
  \cup {<<"like", l, "create">> :
      l \in {j \in Inserted(likes, likes') :
               profiles[likes'[j].user_id].did # Null /\ SubjectResolves(posts, likes'[j])}}
  \cup {<<"repost", r, "create">> :
      r \in {j \in Inserted(reposts, reposts') :
               profiles[reposts'[j].user_id].did # Null /\ SubjectResolves(posts, reposts'[j])}}
  \cup {<<"follow", f, "create">> :
      f \in {j \in Inserted(follows, follows') :
               profiles[follows'[j].follower_id].did # Null /\ FollowResolves(follows'[j])}}
  \cup {<<PostType(posts[p]), p, "delete">> :
      p \in {j \in Deleted(posts, posts') : Addressed(posts[j], posts[j].user_id)}}
  \cup {<<"like", l, "delete">> :
      l \in {j \in Deleted(likes, likes') : Addressed(likes[j], likes[j].user_id)}}
  \cup {<<"repost", r, "delete">> :
      r \in {j \in Deleted(reposts, reposts') : Addressed(reposts[j], reposts[j].user_id)}}
  \cup {<<"follow", f, "delete">> :
      f \in {j \in Deleted(follows, follows') : Addressed(follows[j], follows[j].follower_id)}}

IsReset(r) == r.status = "pending" /\ r.attempts = 0 /\ r.last_error = Null

RowReset(q, k) ==
  /\ Cardinality(RowsWithKey(q, k)) = 1
  /\ \A i \in 1..Len(q) : KeyOf(q[i]) = k => IsReset(q[i])

\* C13: a staging trigger that fires for a key already in the outbox, whatever
\* the status of that row, leaves exactly that one row with status pending,
\* attempts 0 and last_error cleared.
C13_Step ==
  \A k \in StagedKeys \cap QueueKeys(federation_queue) : RowReset(federation_queue', k)

C13_RestagingResets == [][C13_Step]_vars

\* The create entry of an entity has been delivered.
Confirmed(k) ==
  \E i \in 1..Len(federation_queue) :
     KeyOf(federation_queue[i]) = k /\ federation_queue[i].status = "done"

NoAddress(row) == row.rkey = Null /\ row.at_uri = Null

\* C14: before the Sync Worker has confirmed the create entry of a local
\* post, like, repost or follow, its record key, remote URI and content hash
\* are all null.
C14_TripleNullUntilConfirmed ==
  /\ \A p \in DOMAIN posts :
        ~Confirmed(<<PostType(posts[p]), p, "create">>)
           => NoAddress(posts[p]) /\ posts[p].at_cid = Null
  /\ \A l \in DOMAIN likes : ~Confirmed(<<"like", l, "create">>) => NoAddress(likes[l])
  /\ \A r \in DOMAIN reposts : ~Confirmed(<<"repost", r, "create">>) => NoAddress(reposts[r])
  /\ \A f \in DOMAIN follows : ~Confirmed(<<"follow", f, "create">>) => NoAddress(follows[f])

\* The entity a create key belongs to, in the tables after the step.
EntityAfter(k) ==
  CASE k[1] \in {"post", "reply"} -> posts'[k[2]]
    [] k[1] = "like" -> likes'[k[2]]
    [] k[1] = "repost" -> reposts'[k[2]]
    [] k[1] = "follow" -> follows'[k[2]]

\* C14 as the code has it: the content hash of a post is null until the Sync
\* Worker has confirmed its create entry, while the record key and the remote
\* URI are written onto the entity by the staging trigger itself, in the step
\* that first stages its create entry.
C14_Step ==
  /\ \A p \in DOMAIN posts' :
        posts'[p].at_cid # Null
           => \E i \in 1..Len(federation_queue') :
                 /\ KeyOf(federation_queue'[i]) = <<PostType(posts'[p]), p, "create">>
                 /\ federation_queue'[i].status = "done"
  /\ \A k \in StagedKeys \ QueueKeys(federation_queue) :
        k[3] = "create"
           => /\ EntityAfter(k).rkey # Null
              /\ EntityAfter(k).at_uri # Null
              /\ k \in QueueKeys(federation_queue')

C14_HashNullUntilConfirmed == [][C14_Step]_vars

\* A post and a like, both staged and neither confirmed: each carries
\* its record key and URI, the post has no content hash.
C14_StagedUnconfirmed ==
  /\ 1 \in DOMAIN posts
  /\ ~Confirmed(<<"post", 1, "create">>)
  /\ ~NoAddress(posts[1])
  /\ posts[1].at_cid = Null
  /\ 1 \in DOMAIN likes
  /\ ~Confirmed(<<"like", 1, "create">>)
  /\ likes[1].rkey # Null /\ likes[1].at_uri # Null

\* The entities a step deletes: the key of the delete row, the key of the
\* create row, and the values the delete trigger reads from OLD.
Deletion(rtype, id, coll, owner, row) ==
  [key |-> <<rtype, id, "delete">>, created |-> <<rtype, id, "create">>,
   did |-> profiles[owner].did, collection |-> coll,
   rkey |-> row.rkey, at_uri |-> row.at_uri]

Deletions ==
  {Deletion(PostType(posts[p]), p, "app.bsky.feed.post", posts[p].user_id, posts[p]) :
      p \in Deleted(posts, posts')}
  \cup {Deletion("like", l, "app.bsky.feed.like", likes[l].user_id, likes[l]) :
      l \in Deleted(likes, likes')}
  \cup {Deletion("repost", r, "app.bsky.feed.repost", reposts[r].user_id, reposts[r]) :
      r \in Deleted(reposts, reposts')}
  \cup {Deletion("follow", f, "app.bsky.graph.follow", follows[f].follower_id, follows[f]) :
      f \in Deleted(follows, follows')}

DeleteRow(d) ==
  NewRow(d.key[1], d.key[2], d.did, d.collection, d.rkey, d.at_uri, NoData, "delete")

\* Exactly one row of the key, and it is the pending delete row of d.
StagesDelete(q, d) ==
  /\ Cardinality(RowsWithKey(q, d.key)) = 1
  /\ \E i \in 1..Len(q) : q[i] = DeleteRow(d)

RowsOfKey(q, k) == {q[i] : i \in RowsWithKey(q, k)}

\* C15: deleting an entity whose create entry was confirmed stages exactly one
\* pending delete row with the owner identity, collection, record key and URI
\* and no payload; deleting an entity whose create entry was not confirmed
\* (or never staged) stages no delete.
C15_StepAsClaimed ==
  \A d \in Deletions :
     IF Confirmed(d.created) /\ d.at_uri # Null /\ d.did # Null
     THEN StagesDelete(federation_queue', d)
     ELSE RowsOfKey(federation_queue', d.key) = RowsOfKey(federation_queue, d.key)

C15_DeleteOnlyIfConfirmed == [][C15_StepAsClaimed]_vars

\* C15 as the code has it: what decides is the URI on the deleted entity,
\* which the staging trigger wrote.  An entity that carries its record key
\* and URI and whose owner has a DID gets its delete row whether or not the
\* create entry was confirmed (a row of that key already in the outbox is the
\* re-staging case of C13: it stays the only one); an entity without a URI,
\* or of an owner without a DID, gets none.
C15_Step ==
  \A d \in Deletions :
     IF d.at_uri # Null /\ d.rkey # Null /\ d.did # Null
     THEN IF d.key \in QueueKeys(federation_queue)
          THEN Cardinality(RowsWithKey(federation_queue', d.key)) = 1
          ELSE StagesDelete(federation_queue', d)
     ELSE d.at_uri = Null \/ d.did = Null
             => RowsOfKey(federation_queue', d.key) = RowsOfKey(federation_queue, d.key)

C15_DeleteIfAddressed == [][C15_Step]_vars

\* Post 1 was deleted while its create row was still pending, and its delete
\* row stands behind it in the outbox.
C15_DeleteOfUnconfirmed ==
  /\ 1 \notin DOMAIN posts
  /\ \E i, j \in 1..Len(federation_queue) :
        /\ i < j
        /\ KeyOf(federation_queue[i]) = <<"post", 1, "create">>
        /\ federation_queue[i].status = "pending"
        /\ KeyOf(federation_queue[j]) = <<"post", 1, "delete">>
        /\ federation_queue[j].status = "pending"
        /\ federation_queue[j].record_data = NoData

(* ============================= feed properties ========================= *)
\* The keyword kw stands in the text at position i as a whole word: the same
\* characters up to case, with no word character right before or right after.
WholeWordAt(text, kw, i) ==
  /\ i >= 1 /\ i + Len(kw) - 1 <= Len(text)
  /\ \A j \in 1..Len(kw) : text[i + j - 1] = kw[j] \/ ToLower(text[i + j - 1]) = kw[j]
  /\ i = 1 \/ ~IsWordChar(text[i - 1])
  /\ i + Len(kw) - 1 = Len(text) \/ ~IsWordChar(text[i + Len(kw)])

ContainsKeyword(text) ==
  \E n \in DOMAIN CANNABIS_KEYWORDS, i \in 1..Len(text) :
     WholeWordAt(text, CANNABIS_KEYWORDS[n], i)

\* C16: shouldIncludePost includes every handle that ends with the namespace
\* suffix whatever the text; any other handle exactly when the text contains
\* a keyword as a whole word, ignoring case; and excludes otherwise.
C16_InclusionPredicate ==
  \A n \in 1..Len(decision) :
     LET call == decision[n] IN
     /\ endsWith(call.handle, NAMESPACE_SUFFIX) => call.result.include
     /\ ~endsWith(call.handle, NAMESPACE_SUFFIX)
           => (call.result.include <=> ContainsKeyword(call.text))

\* An unrelated handle whose text holds "dabs" next to a space, upper case
\* included: the match is found through the second keyword although the first
\* one is a prefix of it.
C16_KeywordSecondAlternative ==
  /\ decision # <<>>
  /\ decision[1].handle = <<"bob", ".", "bsky", ".", "social">>
  /\ decision[1].text = <<" ", "d", "a", "B", "s">>
  /\ decision[1].result = [include |-> TRUE, reason |-> "keyword_match"]

\* A post-create commit of an account whose handle is in the namespace.
NamespaceCreate(event) ==
  /\ event.kind = "commit"
  /\ event.operation = "create"
  /\ event.collection = "app.bsky.feed.post"
  /\ event.record # <<>>
  /\ endsWith(HandleOf(event.did), NAMESPACE_SUFFIX)

\* C17: every post-create commit event of an account in the cannect.space
\* namespace leaves the URI of that post in the index, whatever its text.
C17_Step ==
  \A event \in FeedEvents, at \in FeedTimes :
     NamespaceCreate(event) /\ handleJetstreamEvent(event, at)
        => InIndex(feedIndex', AtUri(event.did, event.collection, event.rkey))

C17_NamespacePostsIndexed == [][C17_Step]_vars

TimeOf(index, uri) == index[CHOOSE i \in 1..Len(index) : index[i].uri = uri].indexed_at

Newer(index, t) == {i \in 1..Len(index) : index[i].indexed_at > t}

NotOlder(index, t) == {i \in 1..Len(index) : index[i].indexed_at >= t}

\* feed is the slice after the first offset URIs of the index, newest first,
\* limit URIs long or as many as are left.
IsNextSlice(index, feed, limit, offset) ==
  /\ Len(feed) = Min(limit, Max(Len(index) - offset, 0))
  /\ \A k \in 1..Len(feed) :
        /\ InIndex(index, feed[k])
        /\ \A j \in 1..Len(feed) : j # k => feed[j] # feed[k]
        /\ Cardinality(Newer(index, TimeOf(index, feed[k]))) <= offset + k - 1
        /\ Cardinality(NotOlder(index, TimeOf(index, feed[k]))) >= offset + k

MoreRemain(index, feed, offset) == offset + Len(feed) < Len(index)

\* C18: getFeedSkeleton returns the next slice of the index newest first, and
\* its response carries a cursor if and only if more URIs remain after the slice.
C18_StepAsClaimed ==
  response' # response =>
     LET r == response'[1] IN
     /\ IsNextSlice(feedIndex, r.out.feed, r.limit, r.offset)
     /\ r.out.cursor # <<>> <=> MoreRemain(feedIndex, r.out.feed, r.offset)

C18_Step ==
  response' # response =>
     LET r == response'[1] IN
     /\ IsNextSlice(feedIndex, r.out.feed, r.limit, r.offset)
     /\ r.out.cursor # <<>> <=> Len(r.out.feed) = r.limit
     /\ r.out.cursor # <<>> => ParseOffset(r.out.cursor) = r.offset + Len(r.out.feed)
     /\ MoreRemain(feedIndex, r.out.feed, r.offset) => r.out.cursor # <<>>

LikedOrReposted(event) ==
  {p \in LocalPosts :
     /\ event.operation = "create"
     /\ event.collection \in {"app.bsky.feed.like", "app.bsky.feed.repost"}
     /\ event.subject = p.atproto_uri
     /\ \E rkey \in {"a", "b", "c"} : p.atproto_uri = DidUri(profiles[p.user_id].did, rkey)
     /\ findUserByDid(event.actorDid) # p.user_id}

ReasonOf(event) == IF event.collection = "app.bsky.feed.like" THEN "like" ELSE "repost"

\* C19: a like or repost create event whose subject is the stored URI of a
\* local post, from an actor who is not the owner, is not discarded: the
\* handler goes on to createNotification for the owner with that reason,
\* actor and post.
C19_Step ==
  \A event \in Events :
     Receive("i1", event) =>
        \A p \in LikedOrReposted(event) :
           /\ inv'["i1"].pc = "select"
           /\ inv'["i1"].params = Params(p.user_id, event.actorDid, ReasonOf(event), p.id)

C19_LocalSubjectNotDiscarded == [][C19_Step]_vars

IsFollowCreate(event) ==
  event.collection = "app.bsky.graph.follow" /\ event.operation = "create"

\* C21: a follow create event leads to a follow notification exactly when the
\* followed identity is a local user; following an external identity that
\* only has a cached profile row notifies nobody.
C21_Step ==
  \A event \in Events :
     /\ IsFollowCreate(event)
     /\ event.actorDid # event.subjectDid
     /\ Receive("i1", event)
     => ((inv'["i1"].pc = "select" /\ inv'["i1"].params.reason = "follow")
           <=> IsLocalDid(event.subjectDid))

C21_FollowNotifiesLocalOnly == [][C21_Step]_vars

(* =========================== backfill properties ======================= *)
\* The rows of the backfilled tables without their indexed_at stamps.
Content(db) ==
  [profiles |-> {p.did : p \in db.profiles},
   posts |-> {[uri |-> p.uri, cid |-> p.cid, author_did |-> p.author_did] : p \in db.posts},
   follows |-> {[uri |-> f.uri, subject_did |-> f.subject_did, author_did |-> f.author_did] :
                   f \in db.follows},
   post_images |-> db.post_images]

\* C22: once a backfill run has completed, every step of a further run over
\* the unchanged repositories leaves the profiles, posts, follows and
\* post_images rows as they were (their indexed_at stamps aside): nothing is
\* duplicated and nothing is lost.
C22_Step ==
  /\ appviewDb.runs >= 1
  /\ backfillProfiles \/ backfillPosts \/ backfillFollows
  => Content(appviewDb') = Content(appviewDb)

C22_SecondRunChangesNothing == [][C22_Step]_vars

(* ======================= staging error properties ====================== *)
\* C23: an error raised inside a staging trigger never aborts the client's
\* insert or delete of the post, like, repost or follow: the statement
\* commits in every case.
C23_Step == raised' # raised => raised'[1].committed

C23_StagingErrorNeverAborts == [][C23_Step]_vars

(* ======================== connection properties ======================== *)
Relevant(data) ==
  data.parses /\ data.event.kind = "commit" /\ data.event.collection = "app.bsky.feed.post"

\* C24: a post event the network emits after the connection was lost (the
\* event before it had been delivered) is delivered to the handler once the
\* connection is back, unless the process is shut down.
C24_ResumesAfterReconnect ==
  \A n \in 2..MaxEmitted :
     (Len(conn.stream) >= n /\ (n - 1) \in conn.seen /\ Relevant(conn.stream[n]))
        ~> (n \in conn.seen \/ ~conn.running)

(* ====================== skipped likes and reposts ====================== *)
HasCreate(q, rtype, id) == HasKey(q, <<rtype, id, "create">>)

\* The like or repost row id is inserted in this step, with a subject whose
\* content hash is known.
InsertedConfirmed(tbl, tblAfter, id) ==
  /\ id \notin DOMAIN tbl
  /\ id \in DOMAIN tblAfter
  /\ tblAfter[id].subject_cid # Null

\* C25: an outbox create row for a like or repost comes into being only in
\* the step that inserts the like or repost row, and only when the subject's
\* content hash is known in that step.  A like or repost that was skipped
\* for want of the hash therefore stays unstaged in every later state, also
\* after the Sync Worker confirms the post, until its row is inserted again.
C25_Step ==
  /\ \A l \in 1..MaxLikes :
        ~HasCreate(federation_queue, "like", l) /\ HasCreate(federation_queue', "like", l)
          => InsertedConfirmed(likes, likes', l)
  /\ \A r \in 1..MaxReposts :
        ~HasCreate(federation_queue, "repost", r) /\ HasCreate(federation_queue', "repost", r)
          => InsertedConfirmed(reposts, reposts', r)

C25_SkippedStaysSkipped == [][C25_Step]_vars

\* A like that was skipped, and whose post the Sync Worker has confirmed since.
C25_SkippedLikeOfConfirmedPost ==
  \E l \in DOMAIN likes :
     /\ likes[l].at_uri = Null
     /\ likes[l].post_id \in DOMAIN posts
     /\ posts[likes[l].post_id].at_cid # Null
     /\ ~HasCreate(federation_queue, "like", l)

\* The messages and requests the claim calls skipped.
Skipped(data) == ~Relevant(data)

SkippedRequest(event) == event.operation # "create" \/ event.collection = "app.bsky.feed.generator"

Streaming(c) == c.running /\ OpenSockets(c) # {}

\* C26: a message that does not parse, an event that is no commit and a
\* commit of an unknown collection leave the feed index and the
\* notifications as they are and the connection streaming; a well-formed
\* post that arrives on the streaming connection is indexed, whatever came
\* before it.  The ingestion handler likewise answers a malformed body, a
\* non-create and an unknown collection without a notification and handles
\* the next like.
C26_Step ==
  /\ \A data \in StreamMessages :
        Streaming(conn) /\ StreamEmits(data, 1)
          => /\ Streaming(conn')
             /\ OpenSockets(conn') = OpenSockets(conn)
             /\ notifications' = notifications
             /\ Skipped(data) => feedIndex' = feedIndex
             /\ ~Skipped(data)
                  => InIndex(feedIndex', AtUri(data.event.did, data.event.collection,
                                               data.event.rkey))
  /\ \A event \in ProbeEvents :
        Receive("i1", event)
          => /\ notifications' = notifications
             /\ feedIndex' = feedIndex
             /\ SkippedRequest(event) => inv'["i1"].pc = "idle"
             /\ ~SkippedRequest(event) => inv'["i1"].pc = "select"

C26_SkippedInputsChangeNothing == [][C26_Step]_vars

\* The stream delivered a skipped message and, right after it, a post that
\* was indexed.
C26_PostAfterSkippedMessage ==
  /\ Len(conn.stream) = 2
  /\ conn.seen = {1, 2}
  /\ Skipped(conn.stream[1])
  /\ ~conn.stream[1].parses
  /\ ~Skipped(conn.stream[2])
  /\ feedIndex # <<>>
  /\ Streaming(conn)

\* The sockets that are closed in c2 and were not yet in c1.
Lost(c1, c2) ==
  {n \in DOMAIN c1.sockets : c1.sockets[n] # "closed" /\ c2.sockets[n] = "closed"}

C30_AtMostOne ==
  /\ Cardinality(LiveSockets(conn)) + Len(conn.timers) <= 1
  /\ Cardinality(OpenSockets(conn)) <= 1
  /\ Len(conn.timers) <= 1

C30_Step ==
  conn'.running =>
    \* a socket that is lost sets exactly one timer, and nothing else sets one
    /\ Len(conn'.timers) > Len(conn.timers)
         => Cardinality(Lost(conn, conn')) = 1 /\ Len(conn'.timers) = Len(conn.timers) + 1
    /\ Lost(conn, conn') # {} => Len(conn'.timers) = Len(conn.timers) + 1
    \* a socket is created by the timer that fires, or by the start
    /\ Len(conn'.sockets) > Len(conn.sockets)
         => /\ Len(conn'.sockets) = Len(conn.sockets) + 1
            /\ \/ conn.sockets = <<>> /\ conn.timers = <<>>
               \/ Len(conn'.timers) = Len(conn.timers) - 1

\* C30: the process has at most one socket that is not closed and at most
\* one pending reconnect timer, and never both; an error followed by the
\* close of the same socket sets exactly one timer, and a socket is created
\* only at the start and by that timer firing.
C30_OneConnectionOneTimer == []C30_AtMostOne /\ [][C30_Step]_vars

\* The second reconnect is open: two sockets were lost before it.
C30_Reconnected ==
  /\ Len(conn.sockets) = 3
  /\ conn.sockets[3] = "open"
  /\ conn.timers = <<>>

(* ========================== reply references =========================== *)
\* uri and cid name the same post: the post stored under uri, and the
\* content hash the repository returns for its record.
SamePost(uri, cid) ==
  \E p \in DOMAIN posts : posts[p].at_uri = uri /\ cid = CidOf(posts[p].rkey)

\* C27: in every staged record with a reply reference, the parent's uri and
\* cid name one post and the root's uri and cid name one post.
C27_ReferencesNameOnePost ==
  \A i \in 1..Len(federation_queue) :
     federation_queue[i].record_data.parent_uri # Null
       => /\ SamePost(federation_queue[i].record_data.parent_uri,
                      federation_queue[i].record_data.parent_cid)
          /\ SamePost(federation_queue[i].record_data.root_uri,
                      federation_queue[i].record_data.root_cid)

(* ========================= reply before quote ========================== *)
\* uri is the URI of a local post of somebody other than the actor.
LocalContentOfAnother(event, uri) ==
  \E p \in LocalPosts : p.atproto_uri = uri /\ profiles[p.user_id].did # event.actorDid

RowsOf(n) == BagCardinality(n)

\* C28: a post create leads to at most one notification; it is the reply
\* notification whenever the parent is local content of somebody else, and
\* the quote notification only when the parent is not and the quoted post is.
C28_Step ==
  /\ \A event \in PostEvents :
        Receive("i1", event)
          => /\ notifications' = notifications
             /\ LocalContentOfAnother(event, event.parent)
                  => inv'["i1"].pc = "select" /\ inv'["i1"].params.reason = "reply"
             /\ inv'["i1"].pc = "select" /\ inv'["i1"].params.reason = "quote"
                  => /\ ~LocalContentOfAnother(event, event.parent)
                     /\ LocalContentOfAnother(event, event.quoted)
  /\ notifications' # notifications
       => /\ inv["i1"].pc = "insert" /\ inv'["i1"].pc = "idle"
          /\ RowsOf(notifications') = RowsOf(notifications) + 1

C28_ReplyBeforeQuote == [][C28_Step]_vars

(* ============================== paging ================================= *)
OnPage(n, uri) == \E k \in 1..Len(consumer.pages[n]) : consumer.pages[n][k] = uri

Received(c, uri) ==
  \E n \in 1..Len(c.pages) : \E k \in 1..Len(c.pages[n]) : c.pages[n][k] = uri

C29_NoRepeat ==
  \A n, m \in 1..Len(consumer.pages) :
     n # m => \A k \in 1..Len(consumer.pages[n]) : ~OnPage(m, consumer.pages[n][k])

\* With its last page the consumer has every row that was in the index at
\* its first request and is still there.
C29_NoMissStep ==
  consumer.state # "done" /\ consumer'.state = "done"
    => \A row \in consumer'.first :
          row \in RowsOfIndex(feedIndex) => Received(consumer', row.uri)

\* C29: a consumer that follows the cursors gets no URI on two pages, and
\* when the last page has come it has got every URI that was indexed before
\* its first request and has not been removed, whatever was created, deleted
\* or pruned between its requests.
C29_PagesPartitionTheFeed == []C29_NoRepeat /\ [][C29_NoMissStep]_vars

=============================================================================
